---- MODULE Spec2Model ----
(***************************************************************************)
(* ac-client: USP Agent (TR-369).  Model of the MTP connection loops       *)
(* (usp/mtp/websocket.rs, usp/mtp/mqtt.rs), the message engine             *)
(* (usp/agent.rs), the record / message builders (usp/record.rs,           *)
(* usp/message.rs) and the data-model dispatcher (usp/dm/*.rs).            *)
(*                                                                         *)
(* Text is modelled as a sequence of tokens: "Device.WiFi." is             *)
(* <<"Device", ".", "WiFi", ".">> and "1.4, 1.3" is                        *)
(* <<"1", ".", "4", ",", " ", "1", ".", "3">>, so that prefix, suffix,     *)
(* split and trim are computed on the text and not looked up.              *)
(* Endpoint ids and message ids are opaque strings.                        *)
(***************************************************************************)
EXTENDS Integers, Sequences, FiniteSets, TLC

\* ---------------------------------------------------------------------------
\* Bounds of the model
\* ---------------------------------------------------------------------------

\* most payload segments in an inbound SessionContext record
MaxSegs == 1

\* ---------------------------------------------------------------------------
\* Text helpers (Rust str methods used by the code)
\* ---------------------------------------------------------------------------

\* str::starts_with
StartsWith(s, p) ==
    /\ Len(s) >= Len(p)
    /\ SubSeq(s, 1, Len(p)) = p

\* str::ends_with
EndsWith(s, p) ==
    /\ Len(s) >= Len(p)
    /\ SubSeq(s, Len(s) - Len(p) + 1, Len(s)) = p

\* char::is_whitespace, on the tokens the model uses
IsSpace(c) == c \in {" ", "\t"}

\* str::trim: drop leading and trailing whitespace
RECURSIVE TrimStart(_)
TrimStart(s) ==
    IF s # <<>> /\ IsSpace(Head(s)) THEN TrimStart(Tail(s)) ELSE s

RECURSIVE TrimEnd(_)
TrimEnd(s) ==
    IF s # <<>> /\ IsSpace(s[Len(s)]) THEN TrimEnd(SubSeq(s, 1, Len(s) - 1)) ELSE s

Trim(s) == TrimEnd(TrimStart(s))

\* str::split(sep): the list of pieces between separators; never empty
\* ("".split(',') yields one empty piece).
RECURSIVE SplitAcc(_, _, _)
SplitAcc(s, sep, cur) ==
    IF s = <<>> THEN <<cur>>
    ELSE IF Head(s) = sep THEN <<cur>> \o SplitAcc(Tail(s), sep, <<>>)
    ELSE SplitAcc(Tail(s), sep, Append(cur, Head(s)))

Split(s, sep) == SplitAcc(s, sep, <<>>)

\* ---------------------------------------------------------------------------
\* Option
\* ---------------------------------------------------------------------------

None == [some |-> FALSE]
Some(x) == [some |-> TRUE, val |-> x]

\* ---------------------------------------------------------------------------
\* Configuration (config.rs) and identities
\* ---------------------------------------------------------------------------

\* agent endpoint id: cfg.usp_endpoint_id, or "oui:00005A:<mac>"
AgentId == "oui:00005A:aa:bb:cc:dd:ee:ff"

\* cfg.controller_id (never empty: the loaders skip empty values)
ControllerId == "oui:00005A:OptimACS-Controller-1"

\* initial protocol version text "1.3"
V13 == <<"1", ".", "3">>
V14 == <<"1", ".", "4">>


\* ---------------------------------------------------------------------------
\* Result
\* ---------------------------------------------------------------------------

Ok(v) == [ok |-> TRUE, val |-> v]
Err(e) == [ok |-> FALSE, err |-> e]

\* HashMap::extend: pairs of b replace those of a
Extend(a, b) ==
    [k \in (DOMAIN a) \cup (DOMAIN b) |-> IF k \in DOMAIN b THEN b[k] ELSE a[k]]

EmptyMap == [k \in {} |-> <<>>]

\* a HashMap iterates in an arbitrary order: every enumeration of a set
Orders(S) ==
    {f \in [1..Cardinality(S) -> S] : \A i, j \in 1..Cardinality(S) : f[i] = f[j] => i = j}

\* ---------------------------------------------------------------------------
\* Wire encoding (prost).  Bytes either carry an encoded value or are not a
\* valid encoding of anything ("junk").
\* ---------------------------------------------------------------------------

Junk == [enc |-> "junk"]

encode_msg(msg) == Ok([enc |-> "Msg", msg |-> msg])
\* a decoder that falls back to an empty message (an Add without content)
\* when the bytes do not decode
decode_msg_lenient(data) ==
    IF data.enc = "Msg" THEN Ok(data.msg)
    ELSE Ok([header |-> Some([msg_id |-> "", msg_type |-> "Add"]),
             body |-> Some([msg_body |-> None])])

decode_msg(data) == IF data.enc = "Msg" THEN Ok(data.msg) ELSE Err("Decode")

encode_record(record) == Ok([enc |-> "Record", rec |-> record])
decode_record(data) == IF data.enc = "Record" THEN Ok(data.rec) ELSE Err("Decode")

\* ---------------------------------------------------------------------------
\* Record constructors (usp/record.rs)
\* ---------------------------------------------------------------------------

NoSessionContext(payload) == [tag |-> "NoSessionContext", payload |-> payload]
SessionContext(payload)   ==
    [tag |-> "SessionContext", session_id |-> 1, sequence_id |-> 1, expected_id |-> 1,
     payload |-> payload]
WebsocketConnect          == [tag |-> "WebsocketConnect"]
MqttConnect(topic)        == [tag |-> "MqttConnect", version |-> "V3_1_1", subscribed_topic |-> topic]
Disconnect(reason)        == [tag |-> "Disconnect", reason |-> reason, reason_code |-> 0]

Record(version, to_id, from_id, record_type) ==
    [version |-> version, to_id |-> to_id, from_id |-> from_id,
     payload_security |-> "PLAINTEXT", record_type |-> record_type]

no_session_record(from_id, to_id, msg_bytes, usp_version) ==
    Record(usp_version, to_id, from_id, Some(NoSessionContext(msg_bytes)))

websocket_connect_record(from_id, to_id) ==
    Record(V13, to_id, from_id, Some(WebsocketConnect))

mqtt_connect_record(from_id, to_id, subscribed_topic) ==
    Record(V13, to_id, from_id, Some(MqttConnect(subscribed_topic)))

disconnect_record(from_id, to_id, reason) ==
    Record(V13, to_id, from_id, Some(Disconnect(reason)))

\* the last segment taken instead of the first
extract_msg_payload_last(record) ==
    IF ~record.record_type.some THEN None
    ELSE LET r == record.record_type.val IN
         CASE r.tag = "NoSessionContext" -> Some(r.payload)
           [] r.tag = "SessionContext" ->
                IF r.payload = <<>> THEN None ELSE Some(r.payload[Len(r.payload)])
           [] OTHER -> None

\* Option<&[u8]>: the Msg bytes a record carries
extract_msg_payload(record) ==
    IF ~record.record_type.some THEN None
    ELSE LET r == record.record_type.val IN
         CASE r.tag = "NoSessionContext" -> Some(r.payload)
           [] r.tag = "SessionContext" ->
                IF r.payload = <<>> THEN None ELSE Some(Head(r.payload))
           [] OTHER -> None

\* ---------------------------------------------------------------------------
\* Msg constructors (usp/message.rs, usp/agent.rs)
\* ---------------------------------------------------------------------------

Header(msg_id, msg_type) == [msg_id |-> msg_id, msg_type |-> msg_type]
Msg(header, body) == [header |-> header, body |-> body]
Body(msg_body) == [msg_body |-> msg_body]

Request(req_type)   == [tag |-> "Request", req_type |-> req_type]
Response(resp_type) == [tag |-> "Response", resp_type |-> resp_type]
ErrorBody(err_code, err_msg) ==
    [tag |-> "Error", err_code |-> err_code, err_msg |-> err_msg, param_errs |-> <<>>]

\* Uuid::new_v4(): a fresh identifier, never one a peer has used
Uuids == {"uuid-1"}

build_boot_notify(uuid, subscription_id, send_resp, parameter_map) ==
    Msg(Some(Header(uuid, "Notify")),
        Some(Body(Some(Request(Some(
            [tag |-> "Notify", subscription_id |-> subscription_id, send_resp |-> send_resp,
             notification |-> Some([tag |-> "Event", obj_path |-> <<"Device", ".">>,
                                    event_name |-> <<"Boot!">>, command_key |-> <<>>,
                                    params |-> parameter_map])]))))))

build_value_change_notify(uuid, subscription_id, param_path, param_value) ==
    Msg(Some(Header(uuid, "Notify")),
        Some(Body(Some(Request(Some(
            [tag |-> "Notify", subscription_id |-> subscription_id, send_resp |-> FALSE,
             notification |-> Some([tag |-> "ValueChange", param_path |-> param_path,
                                    param_value |-> param_value])]))))))

build_notify_resp(msg_id, subscription_id) ==
    Msg(Some(Header(msg_id, "NotifyResp")),
        Some(Body(Some(Response(Some(
            [tag |-> "NotifyResp", subscription_id |-> subscription_id]))))))

build_get_supported_proto(uuid) ==
    Msg(Some(Header(uuid, "GetSupportedProto")),
        Some(Body(Some(Request(Some(
            [tag |-> "GetSupportedProto", controller_supported_versions |-> V13]))))))

build_operate_resp(msg_id, command, command_key, output_args) ==
    Msg(Some(Header(msg_id, "OperateResp")),
        Some(Body(Some(Response(Some(
            [tag |-> "OperateResp", command_key |-> command_key,
             operation_results |-> << [executed_command |-> command,
                                       operate_resp_type |-> Some([tag |-> "ReqOutputArgs",
                                                                   output_args |-> output_args])] >>]))))))

\* a SetResp that acknowledges the first object only
build_set_resp_first_only(msg_id, updated_obj_paths) ==
    Msg(Some(Header(msg_id, "SetResp")),
        Some(Body(Some(Response(Some(
            [tag |-> "SetResp",
             updated_obj_results |->
                [i \in 1..(IF updated_obj_paths = <<>> THEN 0 ELSE 1) |->
                    [requested_path |-> updated_obj_paths[i],
                     oper_status |-> Some([tag |-> "OperSuccess", updated_inst_results |-> <<>>])]]]))))))

build_set_resp(msg_id, updated_obj_paths) ==
    Msg(Some(Header(msg_id, "SetResp")),
        Some(Body(Some(Response(Some(
            [tag |-> "SetResp",
             updated_obj_results |->
                [i \in 1..Len(updated_obj_paths) |->
                    [requested_path |-> updated_obj_paths[i],
                     oper_status |-> Some([tag |-> "OperSuccess", updated_inst_results |-> <<>>])]]]))))))

\* build_error with a header made like the notify builders make theirs
build_error_fresh_id(msg_id, err_code, err_msg) ==
    Msg(Some(Header("uuid-1", "Error")),
        Some(Body(Some(ErrorBody(err_code, err_msg)))))

build_error(msg_id, err_code, err_msg) ==
    Msg(Some(Header(msg_id, "Error")),
        Some(Body(Some(ErrorBody(err_code, err_msg)))))

\* a GetResp whose result_params are keyed by the parameter's path
build_get_resp_keyed_by_path(msg_id, params, order) ==
    Some(Msg(Some(Header(msg_id, "GetResp")),
             Some(Body(Some(Response(Some(
                [tag |-> "GetResp",
                 req_path_results |->
                    [i \in 1..Len(order) |->
                        [requested_path |-> order[i], err_code |-> 0, err_msg |-> <<>>,
                         resolved_path_results |->
                            << [resolved_path |-> order[i],
                                result_params |-> [k \in {order[i]} |-> params[order[i]]]] >>]]])))))))

\* `order` is the iteration order of the params HashMap
build_get_resp(msg_id, params, order) ==
    Some(Msg(Some(Header(msg_id, "GetResp")),
             Some(Body(Some(Response(Some(
                [tag |-> "GetResp",
                 req_path_results |->
                    [i \in 1..Len(order) |->
                        [requested_path |-> order[i], err_code |-> 0, err_msg |-> <<>>,
                         resolved_path_results |->
                            << [resolved_path |-> order[i],
                                result_params |-> [k \in {<<>>} |-> params[order[i]]]] >>]]])))))))


\* ---------------------------------------------------------------------------
\* Device state and platform collaborators
\* ---------------------------------------------------------------------------

\* UCI options the handlers read and write
UciOptions ==
    {"wireless.@wifi-iface[0].ssid", "wireless.@wifi-iface[0].encryption",
     "wireless.@wifi-iface[0].key", "wireless.radio0.channel",
     "network.lan.ipaddr", "network.lan.netmask", "network.lan.proto"}

UciPackage(opt) ==
    IF opt \in {"network.lan.ipaddr", "network.lan.netmask", "network.lan.proto"}
    THEN "network" ELSE "wireless"

\* the device as shipped: staged (what `uci get` answers) and committed UCI
\* values, and the firmware image file {fw_dir}/firmware.bin
InitDev ==
    LET conf == [o \in UciOptions |->
                    CASE o = "wireless.@wifi-iface[0].ssid"       -> <<"OpenWrt">>
                      [] o = "wireless.@wifi-iface[0].encryption" -> <<"psk2">>
                      [] o = "wireless.@wifi-iface[0].key"        -> <<"secret">>
                      [] o = "wireless.radio0.channel"            -> <<"11">>
                      [] o = "network.lan.ipaddr"                 -> <<"192", ".", "168", ".", "1", ".", "1">>
                      [] o = "network.lan.netmask"                -> <<"255", ".", "255", ".", "255", ".", "0">>
                      [] o = "network.lan.proto"                  -> <<"static">>]
    IN [uci |-> conf, saved |-> conf, fw |-> "none"]

\* cfg.sys_model, cfg.mac_addr and the util::read_* readers
SysModel      == <<"dir300">>
MacAddr       == <<"aa:bb:cc:dd:ee:ff">>
FwVersion     == <<"r16279">>
UpTimeText    == <<"0d 0h 5m 7s">>
LoadAvgText   == <<"0", ".", "10", " ", "0", ".", "05", " ", "0", ".", "01">>
FreeMemText   == <<"52340">>
InitCertPem   == <<"-----BEGIN CERTIFICATE-----">>

\* uci_get (wifi.rs, ip.rs): the trimmed value, "" on failure
uci_get(dev, opt) == Trim(dev.uci[opt])

\* one call of a platform collaborator, as the handlers make it: the command,
\* what it is applied to, the value passed and whether it succeeded
Call(cmd, target, value, ok) == [cmd |-> cmd, target |-> target, value |-> value, ok |-> ok]

\* uci_set (wifi.rs, ip.rs): every outcome of running `uci set`
uci_set(dev, opt, value) ==
    { [res |-> Ok("unit"), dev |-> [dev EXCEPT !.uci[opt] = value],
       calls |-> <<Call("uci set", opt, value, TRUE)>>],
      [res |-> Err(<<"uci set ", opt, " failed">>), dev |-> dev,
       calls |-> <<Call("uci set", opt, value, FALSE)>>],
      [res |-> Err(<<"No such file or directory (os error 2)">>), dev |-> dev,
       calls |-> <<Call("uci set", opt, value, FALSE)>>] }

\* uci_commit (wifi.rs): only a failure to spawn is an error; the exit status
\* is not looked at
uci_commit(dev, pkg) ==
    { [res |-> Ok("unit"),
       dev |-> [dev EXCEPT !.saved = [o \in UciOptions |->
                                        IF UciPackage(o) = pkg THEN dev.uci[o] ELSE @[o]]],
       calls |-> <<Call("uci commit", pkg, <<>>, TRUE)>>],
      [res |-> Ok("unit"), dev |-> dev, calls |-> <<Call("uci commit", pkg, <<>>, FALSE)>>],
      [res |-> Err(<<"No such file or directory (os error 2)">>), dev |-> dev,
       calls |-> <<Call("uci commit", pkg, <<>>, FALSE)>>] }

\* cfg.fw_dir and the image file the firmware handler writes
FwDir  == "/tmp/firmware"
FwPath == <<FwDir, "/", "firmware.bin">>

\* reqwest::get: the request is answered, or it fails
http_get(dev, url) ==
    { [res |-> Ok("response"), dev |-> dev, calls |-> <<Call("http get", url, <<>>, TRUE)>>],
      [res |-> Err(<<"error sending request">>), dev |-> dev,
       calls |-> <<Call("http get", url, <<>>, FALSE)>>] }

\* Response::bytes: the body arrives whole, or the transfer breaks
http_body(dev, url) ==
    { [res |-> Ok("bytes"), dev |-> dev, calls |-> <<Call("http body", url, <<>>, TRUE)>>],
      [res |-> Err(<<"error decoding response body">>), dev |-> dev,
       calls |-> <<Call("http body", url, <<>>, FALSE)>>] }

\* tokio::fs::write of the downloaded image
fs_write(dev, path) ==
    { [res |-> Ok("unit"), dev |-> [dev EXCEPT !.fw = "written"],
       calls |-> <<Call("write", path, <<"image">>, TRUE)>>],
      [res |-> Err(<<"Permission denied (os error 13)">>), dev |-> dev,
       calls |-> <<Call("write", path, <<"image">>, FALSE)>>] }

\* apply::apply_firmware: sysupgrade runs and succeeds, exits with a failure
\* status, or cannot be run
apply_firmware(dev, fw_path) ==
    { [res |-> Ok("unit"), dev |-> [dev EXCEPT !.fw = "applied"],
       calls |-> <<Call("apply_firmware", fw_path, <<>>, TRUE)>>],
      [res |-> Err(<<"sysupgrade failed with status 1">>), dev |-> dev,
       calls |-> <<Call("apply_firmware", fw_path, <<>>, FALSE)>>],
      [res |-> Err(<<"No such file or directory (os error 2)">>), dev |-> dev,
       calls |-> <<Call("apply_firmware", fw_path, <<>>, FALSE)>>] }

\* ---------------------------------------------------------------------------
\* Data model: paths
\* ---------------------------------------------------------------------------

P_Device       == <<"Device", ".">>
P_DeviceInfo   == P_Device \o <<"DeviceInfo", ".">>
P_WiFi         == P_Device \o <<"WiFi", ".">>
P_IPInterface  == P_Device \o <<"IP", ".", "Interface", ".">>
P_DHCPv4       == P_Device \o <<"DHCPv4", ".">>
P_Hosts        == P_Device \o <<"Hosts", ".">>
P_Camera       == P_Device \o <<"X_OptimACS_Camera", ".">>
P_Firmware     == P_Device \o <<"X_OptimACS_Firmware", ".">>
P_Security     == P_Device \o <<"X_OptimACS_Security", ".">>

\* str::contains
Contains(s, p) ==
    \E i \in 1..(Len(s) - Len(p) + 1) : SubSeq(s, i, i + Len(p) - 1) = p

\* str::trim_start_matches(pattern): the pattern removed as often as it leads
RECURSIVE TrimStartMatches(_, _)
TrimStartMatches(s, p) ==
    IF p # <<>> /\ StartsWith(s, p) THEN TrimStartMatches(SubSeq(s, Len(p) + 1, Len(s)), p)
    ELSE s

\* the number of '.' in a path
RECURSIVE CountDots(_)
CountDots(s) ==
    IF s = <<>> THEN 0 ELSE (IF Head(s) = "." THEN 1 ELSE 0) + CountDots(Tail(s))

\* ---------------------------------------------------------------------------
\* Data model: GET handlers
\* ---------------------------------------------------------------------------

device_info_get(path) ==
    LET rest == TrimStartMatches(path, P_DeviceInfo)
        one(suffix, val) == [k \in {P_DeviceInfo \o <<suffix>>} |-> val]
    IN CASE rest = <<>> ->
              Extend(one("HostName", SysModel),
              Extend(one("SoftwareVersion", FwVersion),
              Extend(one("HardwareVersion", SysModel),
              Extend(one("SerialNumber", MacAddr),
              Extend(one("UpTime", UpTimeText),
              Extend(one("X_OptimACS_LoadAvg", LoadAvgText),
                     one("X_OptimACS_FreeMem", FreeMemText)))))))
         [] rest = <<"HostName">>           -> one("HostName", SysModel)
         [] rest = <<"SoftwareVersion">>    -> one("SoftwareVersion", FwVersion)
         [] rest = <<"HardwareVersion">>    -> one("HardwareVersion", SysModel)
         [] rest = <<"SerialNumber">>       -> one("SerialNumber", MacAddr)
         [] rest = <<"UpTime">>             -> one("UpTime", UpTimeText)
         [] rest = <<"X_OptimACS_LoadAvg">> -> one("X_OptimACS_LoadAvg", LoadAvgText)
         [] rest = <<"X_OptimACS_FreeMem">> -> one("X_OptimACS_FreeMem", FreeMemText)
         [] OTHER -> EmptyMap

wifi_get(dev, path) ==
    LET all  == EndsWith(path, P_WiFi)
        ssid == uci_get(dev, "wireless.@wifi-iface[0].ssid")
        m1 == IF (Contains(path, <<"SSID", ".">>) \/ all) /\ ssid # <<>>
              THEN [k \in {P_WiFi \o <<"SSID", ".", "1", ".", "SSID">>} |-> ssid]
              ELSE EmptyMap
        m2 == IF Contains(path, <<"AccessPoint", ".">>) \/ all
              THEN [k \in {P_WiFi \o <<"AccessPoint", ".", "1", ".", "Security", ".", "ModeEnabled">>,
                           P_WiFi \o <<"AccessPoint", ".", "1", ".", "Security", ".", "KeyPassphrase">>} |->
                        IF k[Len(k)] = "ModeEnabled"
                        THEN uci_get(dev, "wireless.@wifi-iface[0].encryption")
                        ELSE uci_get(dev, "wireless.@wifi-iface[0].key")]
              ELSE EmptyMap
        m3 == IF Contains(path, <<"Radio", ".">>) \/ all
              THEN [k \in {P_WiFi \o <<"Radio", ".", "1", ".", "Channel">>} |->
                        uci_get(dev, "wireless.radio0.channel")]
              ELSE EmptyMap
    IN Extend(m1, Extend(m2, m3))

ip_get(dev, path) ==
    LET prefix == P_IPInterface \o <<"1", ".", "IPv4Address", ".", "1", ".">>
    IN IF StartsWith(path, prefix) \/ path = P_IPInterface \/ path = P_IPInterface \o <<"1", ".">>
       THEN [k \in {prefix \o <<"IPAddress">>, prefix \o <<"SubnetMask">>,
                    prefix \o <<"AddressingType">>} |->
                CASE k[Len(k)] = "IPAddress"  -> uci_get(dev, "network.lan.ipaddr")
                  [] k[Len(k)] = "SubnetMask" -> uci_get(dev, "network.lan.netmask")
                  [] OTHER                    -> uci_get(dev, "network.lan.proto")]
       ELSE EmptyMap

firmware_get(path) ==
    IF EndsWith(path, <<"AvailableVersion">>) \/ EndsWith(path, P_Firmware)
    THEN [k \in {P_Firmware \o <<"AvailableVersion">>} |-> FwVersion]
    ELSE EmptyMap

\* static leases of `uci show dhcp`, entries of /etc/hosts and discovered
\* cameras: one of each on the modelled device
dhcp_get(path) ==
    LET base == P_DHCPv4 \o <<"Server", ".", "Pool", ".", "1", ".", "StaticAddress", ".", "1", ".">>
    IN [k \in {base \o <<"Chaddr">>, base \o <<"Yiaddr">>} |->
            IF k[Len(k)] = "Chaddr" THEN <<"00:11:22:33:44:55">> ELSE <<"192.168.1.50">>]

hosts_get(path) ==
    LET base == P_Hosts \o <<"Host", ".", "1", ".">>
    IN [k \in {base \o <<"IPAddress">>, base \o <<"HostName">>} |->
            IF k[Len(k)] = "IPAddress" THEN <<"127.0.0.1">> ELSE <<"localhost">>]

cameras_get(path) ==
    LET base == P_Camera \o <<"1", ".">>
    IN [k \in {base \o <<"IPAddress">>, base \o <<"MACAddress">>} |->
            IF k[Len(k)] = "IPAddress" THEN <<"192.168.1.90">> ELSE <<"00:40:8c:00:00:01">>]

\* a dispatcher that also answers the Security subtree
dispatch_get_with_security(dev, path) ==
    CASE StartsWith(path, P_DeviceInfo)  -> device_info_get(path)
      [] StartsWith(path, P_WiFi)        -> wifi_get(dev, path)
      [] StartsWith(path, P_IPInterface) -> ip_get(dev, path)
      [] StartsWith(path, P_DHCPv4)      -> dhcp_get(path)
      [] StartsWith(path, P_Hosts)       -> hosts_get(path)
      [] StartsWith(path, P_Camera)      -> cameras_get(path)
      [] StartsWith(path, P_Firmware)    -> firmware_get(path)
      [] StartsWith(path, P_Security)    -> [k \in {P_Security \o <<"Cert">>} |-> InitCertPem]
      [] OTHER                           -> EmptyMap

dispatch_get(dev, path) ==
    CASE StartsWith(path, P_DeviceInfo)  -> device_info_get(path)
      [] StartsWith(path, P_WiFi)        -> wifi_get(dev, path)
      [] StartsWith(path, P_IPInterface) -> ip_get(dev, path)
      [] StartsWith(path, P_DHCPv4)      -> dhcp_get(path)
      [] StartsWith(path, P_Hosts)       -> hosts_get(path)
      [] StartsWith(path, P_Camera)      -> cameras_get(path)
      [] StartsWith(path, P_Firmware)    -> firmware_get(path)
      [] OTHER                           -> EmptyMap

\* a depth filter that counts one level too many
RECURSIVE get_params_one_deeper(_, _, _)
get_params_one_deeper(dev, paths, max_depth) ==
    IF paths = <<>> THEN EmptyMap
    ELSE LET n       == Len(paths)
             path    == paths[n]
             partial == dispatch_get(dev, path)
             kept    == IF max_depth = 0 THEN DOMAIN partial
                        ELSE {k \in DOMAIN partial : CountDots(k) <= CountDots(path) + max_depth + 1}
         IN Extend(get_params_one_deeper(dev, SubSeq(paths, 1, n - 1), max_depth),
                   [k \in kept |-> partial[k]])

RECURSIVE get_params(_, _, _)
get_params(dev, paths, max_depth) ==
    IF paths = <<>> THEN EmptyMap
    ELSE LET n       == Len(paths)
             path    == paths[n]
             partial == dispatch_get(dev, path)
             kept    == IF max_depth = 0 THEN DOMAIN partial
                        ELSE {k \in DOMAIN partial : CountDots(k) <= CountDots(path) + max_depth}
         IN Extend(get_params(dev, SubSeq(paths, 1, n - 1), max_depth),
                   [k \in kept |-> partial[k]])


\* ---------------------------------------------------------------------------
\* Data model: SET handlers.  Each yields the set of its possible outcomes
\* [res, dev], one per outcome of the commands it runs.
\* ---------------------------------------------------------------------------

\* `a?; b`: b runs on the device a left, unless a failed; the calls of b
\* follow those of a
AndThen(first, next(_)) ==
    UNION { IF o.res.ok
            THEN { [r EXCEPT !.calls = o.calls \o @] : r \in next(o.dev) }
            ELSE {o} : o \in first }

\* a handler that commits whether or not the set succeeded
wifi_set_commit_always(dev, path, value) ==
    LET after(first) ==
            UNION { { [r EXCEPT !.calls = o.calls \o @,
                                !.res = IF o.res.ok THEN @ ELSE o.res] :
                         r \in uci_commit(o.dev, "wireless") } : o \in first }
    IN CASE EndsWith(path, <<".", "SSID">>) ->
              after(uci_set(dev, "wireless.@wifi-iface[0].ssid", value))
         [] EndsWith(path, <<".", "KeyPassphrase">>) ->
              after(uci_set(dev, "wireless.@wifi-iface[0].key", value))
         [] EndsWith(path, <<".", "ModeEnabled">>) ->
              after(uci_set(dev, "wireless.@wifi-iface[0].encryption", value))
         [] EndsWith(path, <<".", "Channel">>) ->
              after(uci_set(dev, "wireless.radio0.channel", value))
         [] OTHER -> {[res |-> Ok("unit"), dev |-> dev, calls |-> <<>>]}

wifi_set(dev, path, value) ==
    LET commit(d) == uci_commit(d, "wireless")
    IN CASE EndsWith(path, <<".", "SSID">>) ->
              AndThen(uci_set(dev, "wireless.@wifi-iface[0].ssid", value), commit)
         [] EndsWith(path, <<".", "KeyPassphrase">>) ->
              AndThen(uci_set(dev, "wireless.@wifi-iface[0].key", value), commit)
         [] EndsWith(path, <<".", "ModeEnabled">>) ->
              AndThen(uci_set(dev, "wireless.@wifi-iface[0].encryption", value), commit)
         [] EndsWith(path, <<".", "Channel">>) ->
              AndThen(uci_set(dev, "wireless.radio0.channel", value), commit)
         [] OTHER -> {[res |-> Ok("unit"), dev |-> dev, calls |-> <<>>]}

ip_set(dev, path, value) ==
    LET commit(d) == {[res |-> Ok("unit"), dev |-> o.dev, calls |-> o.calls] :
                         o \in uci_commit(d, "network")}
        staged == CASE EndsWith(path, <<".", "IPAddress">>) ->
                         uci_set(dev, "network.lan.ipaddr", value)
                    [] EndsWith(path, <<".", "SubnetMask">>) ->
                         uci_set(dev, "network.lan.netmask", value)
                    [] EndsWith(path, <<".", "AddressingType">>) ->
                         uci_set(dev, "network.lan.proto", value)
                    [] OTHER -> {[res |-> Ok("unit"), dev |-> dev, calls |-> <<>>]}
    IN AndThen(staged, commit)

device_info_set(dev, path, value) ==
    {[res |-> Err(<<"Device.DeviceInfo.* is read-only">>), dev |-> dev, calls |-> <<>>]}

dhcp_set(dev, path, value) ==
    {[res |-> Err(<<"DHCPv4 static address modification not yet implemented on agent side">>),
      dev |-> dev, calls |-> <<>>]}

hosts_set(dev, path, value) ==
    {[res |-> Err(<<"Device.Hosts.Host.* modification not yet implemented on agent side">>),
      dev |-> dev, calls |-> <<>>]}

security_set(dev, path, value) == {[res |-> Ok("unit"), dev |-> dev, calls |-> <<>>]}

dispatch_set(dev, path, value) ==
    CASE StartsWith(path, P_DeviceInfo)  -> device_info_set(dev, path, value)
      [] StartsWith(path, P_WiFi)        -> wifi_set(dev, path, value)
      [] StartsWith(path, P_IPInterface) -> ip_set(dev, path, value)
      [] StartsWith(path, P_DHCPv4)      -> dhcp_set(dev, path, value)
      [] StartsWith(path, P_Hosts)       -> hosts_set(dev, path, value)
      [] StartsWith(path, P_Security)    -> security_set(dev, path, value)
      [] OTHER -> {[res |-> Err(<<"read-only or unknown path: ">> \o path), dev |-> dev, calls |-> <<>>]}

\* every update dispatched, the first failure reported at the end
RECURSIVE set_params_all(_, _)
set_params_all(dev, updates) ==
    IF updates = <<>> THEN {[res |-> Ok("unit"), dev |-> dev, calls |-> <<>>]}
    ELSE UNION { { [res |-> IF o.res.ok THEN r.res ELSE o.res, dev |-> r.dev,
                       calls |-> o.calls \o r.calls] :
                      r \in set_params_all(o.dev, Tail(updates)) } :
                 o \in dispatch_set(dev, Head(updates)[1], Head(updates)[2]) }

\* updates: sequence of <<path, value>>; stops at the first failure
RECURSIVE set_params(_, _)
set_params(dev, updates) ==
    IF updates = <<>> THEN {[res |-> Ok("unit"), dev |-> dev, calls |-> <<>>]}
    ELSE LET rest(d) == set_params(d, Tail(updates))
         IN AndThen(dispatch_set(dev, Head(updates)[1], Head(updates)[2]), rest)

\* ---------------------------------------------------------------------------
\* Data model: OPERATE handlers
\* ---------------------------------------------------------------------------

DigitTokens == {"0", "1", "2"}
DigitValue(t) == CASE t = "0" -> 0 [] t = "1" -> 1 [] t = "2" -> 2

\* cam::discover_cameras: the cameras found on the LAN
Cameras == << [ip |-> <<"192.168.1.90">>, mac |-> <<"00:40:8c:00:00:01">>] >>

cameras_operate_capture(dev, command, input_args) ==
    LET pieces == Split(command, ".")
        hits   == {i \in 1..Len(pieces) : \A j \in 1..Len(pieces[i]) : pieces[i][j] \in DigitTokens}
        first  == IF hits = {} THEN <<>>
                  ELSE pieces[CHOOSE i \in hits : \A k \in hits : i <= k]
        \* find(..).and_then(parse).unwrap_or(1)
        idxTok == IF hits # {} /\ Len(first) = 1 THEN first[1] ELSE "1"
        idx    == DigitValue(idxTok)
        at     == IF idx = 0 THEN 0 ELSE idx - 1
    IN {[res |-> Err(<<"http client build failed">>), dev |-> dev, calls |-> <<>>]} \cup
       (IF at + 1 > Len(Cameras)
        THEN {[res |-> Err(<<"camera ", idxTok, " not found">>), dev |-> dev, calls |-> <<>>]}
        ELSE {[res |-> Err(<<"capture failed">>), dev |-> dev, calls |-> <<>>],
              [res |-> Ok([k \in {<<"image_size">>, <<"camera_ip">>} |->
                              IF k = <<"image_size">> THEN <<"20480">> ELSE Cameras[at + 1].ip]),
               dev |-> dev, calls |-> <<>>]})

\* a download that goes on to apply the image when writing it failed
firmware_operate_download_unwritten(dev, command, input_args) ==
    LET fw_url == IF <<"url">> \in DOMAIN input_args THEN input_args[<<"url">>] ELSE <<>>
        get(d)   == http_get(d, fw_url)
        body(d)  == http_body(d, fw_url)
        write(d) == { [o EXCEPT !.res = Ok("unit")] : o \in fs_write(d, FwPath) }
        apply(d) == apply_firmware(d, FwPath)
        done(d)  == {[res |-> Ok([k \in {<<"status">>} |-> <<"applied">>]), dev |-> d, calls |-> <<>>]}
    IN IF fw_url = <<>>
       THEN {[res |-> Err(<<"firmware download requires 'url' input arg">>), dev |-> dev, calls |-> <<>>]}
       ELSE AndThen(AndThen(AndThen(AndThen(get(dev), body), write), apply), done)

firmware_operate_download(dev, command, input_args) ==
    LET fw_url == IF <<"url">> \in DOMAIN input_args THEN input_args[<<"url">>] ELSE <<>>
        get(d)   == http_get(d, fw_url)
        body(d)  == http_body(d, fw_url)
        write(d) == fs_write(d, FwPath)
        apply(d) == apply_firmware(d, FwPath)
        done(d)  == {[res |-> Ok([k \in {<<"status">>} |-> <<"applied">>]), dev |-> d, calls |-> <<>>]}
    IN IF fw_url = <<>>
       THEN {[res |-> Err(<<"firmware download requires 'url' input arg">>), dev |-> dev, calls |-> <<>>]}
       ELSE AndThen(AndThen(AndThen(AndThen(get(dev), body), write), apply), done)

security_operate_issue_cert(dev, command, input_args) ==
    {[res |-> Err(<<"No such file or directory (os error 2)">>), dev |-> dev, calls |-> <<>>],
     [res |-> Ok([k \in {<<"csr">>} |-> InitCertPem]), dev |-> dev, calls |-> <<>>]}

\* routed by the prefix alone, whatever operation the command names
operate_by_prefix(dev, command, input_args) ==
    CASE StartsWith(command, P_Camera) -> cameras_operate_capture(dev, command, input_args)
      [] StartsWith(command, P_Firmware) -> firmware_operate_download(dev, command, input_args)
      [] StartsWith(command, P_Security) -> security_operate_issue_cert(dev, command, input_args)
      [] OTHER -> {[res |-> Err(<<"unknown command: ">> \o command), dev |-> dev, calls |-> <<>>]}

operate(dev, command, input_args) ==
    CASE StartsWith(command, P_Camera) /\ EndsWith(command, <<".", "Capture()">>) ->
            cameras_operate_capture(dev, command, input_args)
      [] StartsWith(command, P_Firmware) /\ EndsWith(command, <<".", "Download()">>) ->
            firmware_operate_download(dev, command, input_args)
      [] StartsWith(command, P_Security) /\ EndsWith(command, <<".", "IssueCert()">>) ->
            security_operate_issue_cert(dev, command, input_args)
      [] OTHER -> {[res |-> Err(<<"unknown command: ">> \o command), dev |-> dev, calls |-> <<>>]}


\* ---------------------------------------------------------------------------
\* Agent message engine (usp/agent.rs)
\* ---------------------------------------------------------------------------

\* the values of the MessageType enum; any other number fails try_from
MessageTypes ==
    {"Error", "Get", "GetResp", "Notify", "Set", "SetResp", "Operate", "OperateResp",
     "Add", "AddResp", "Delete", "DeleteResp", "GetSupportedDm", "GetSupportedDmResp",
     "GetInstances", "GetInstancesResp", "NotifyResp", "GetSupportedProto",
     "GetSupportedProtoResp"}

collect_boot_params ==
    LET keys == {P_DeviceInfo \o <<"HostName">>, P_DeviceInfo \o <<"SoftwareVersion">>,
                 P_DeviceInfo \o <<"HardwareVersion">>, P_DeviceInfo \o <<"SerialNumber">>,
                 P_DeviceInfo \o <<"UpTime">>, P_DeviceInfo \o <<"X_OptimACS_LoadAvg">>,
                 P_DeviceInfo \o <<"X_OptimACS_FreeMem">>, <<"Cause">>, <<"FirmwareUpdated">>}
    IN [k \in keys |->
          CASE k = <<"Cause">>           -> <<"LocalReboot">>
            [] k = <<"FirmwareUpdated">> -> <<"false">>
            [] k[Len(k)] = "HostName"           -> SysModel
            [] k[Len(k)] = "SoftwareVersion"    -> FwVersion
            [] k[Len(k)] = "HardwareVersion"    -> SysModel
            [] k[Len(k)] = "SerialNumber"       -> MacAddr
            [] k[Len(k)] = "UpTime"             -> UpTimeText
            [] k[Len(k)] = "X_OptimACS_LoadAvg" -> LoadAvgText
            [] OTHER                            -> FreeMemText]

\* the request of a body, when the body holds a request of kind `tag`
ReqOf(body, tag) ==
    IF /\ body.msg_body.some
       /\ body.msg_body.val.tag = "Request"
       /\ body.msg_body.val.req_type.some
       /\ body.msg_body.val.req_type.val.tag = tag
    THEN Some(body.msg_body.val.req_type.val) ELSE None

RECURSIVE Flatten(_)
Flatten(ss) == IF ss = <<>> THEN <<>> ELSE Head(ss) \o Flatten(Tail(ss))

extract_set_updates(body) ==
    LET s == ReqOf(body, "Set")
    IN IF ~s.some THEN <<>>
       ELSE Flatten([i \in 1..Len(s.val.update_objs) |->
                LET obj == s.val.update_objs[i]
                IN [j \in 1..Len(obj.param_settings) |->
                       <<obj.obj_path \o obj.param_settings[j].param,
                         obj.param_settings[j].value>>]])

extract_set_obj_paths(body) ==
    LET s == ReqOf(body, "Set")
    IN IF ~s.some THEN <<>>
       ELSE [i \in 1..Len(s.val.update_objs) |-> s.val.update_objs[i].obj_path]

extract_operate(body) ==
    LET op == ReqOf(body, "Operate")
    IN IF op.some THEN <<op.val.command, op.val.command_key, op.val.input_args>>
       ELSE <<<<>>, <<>>, EmptyMap>>

\* the pieces taken as they are, not trimmed
extract_supported_versions_untrimmed(body) ==
    IF /\ body.msg_body.some
       /\ body.msg_body.val.tag = "Response"
       /\ body.msg_body.val.resp_type.some
       /\ body.msg_body.val.resp_type.val.tag = "GetSupportedProtoResp"
    THEN Split(body.msg_body.val.resp_type.val.agent_supported_versions, ",")
    ELSE <<>>

extract_supported_versions(body) ==
    IF /\ body.msg_body.some
       /\ body.msg_body.val.tag = "Response"
       /\ body.msg_body.val.resp_type.some
       /\ body.msg_body.val.resp_type.val.tag = "GetSupportedProtoResp"
    THEN LET pieces == Split(body.msg_body.val.resp_type.val.agent_supported_versions, ",")
         IN [i \in 1..Len(pieces) |-> Trim(pieces[i])]
    ELSE <<>>

\* what the engine answers to a message of a type it does not serve
unsupported_reply(msg_id, msg_type) ==
    IF msg_type \in {"GetSupportedDm", "GetInstances", "Add", "Delete"}
    THEN build_error(msg_id, 7004, <<"NOT_SUPPORTED">>)
    ELSE build_error(msg_id, 7000, <<"MESSAGE_NOT_UNDERSTOOD">>)

\* a NotifyResp that is acknowledged with an Error
notify_resp_reply_error(msg_id) == Some(build_error(msg_id, 7000, <<"MESSAGE_NOT_UNDERSTOOD">>))

\* the reply to a NotifyResp: none (the subscription id is only logged)
notify_resp_reply(msg_id) == None

\* the reply to a Set / an Operate, from the dispatcher's result
set_reply(msg_id, obj_paths, res) ==
    IF res.ok THEN build_set_resp(msg_id, obj_paths) ELSE build_error(msg_id, 7200, res.err)

operate_reply(msg_id, command, command_key, res) ==
    IF res.ok THEN build_operate_resp(msg_id, command, command_key, res.val)
    ELSE build_error(msg_id, 7800, res.err)

\* the version the cell holds after a GetSupportedProtoResp
negotiate(ver, versions) == IF versions # <<>> THEN versions[1] ELSE ver

\* response.and_then(|msg| encode_msg(&msg).ok())
Encoded(response) ==
    IF response.some /\ encode_msg(response.val).ok
    THEN Some(encode_msg(response.val).val) ELSE None

Outcome(resp, ver, dev, stored) ==
    [resp |-> resp, ver |-> ver, dev |-> dev, stored |-> stored]

\* handle_incoming: the set of outcomes [resp, ver, dev, stored]: the encoded
\* response (if any), the negotiated version and the device afterwards, and
\* whether the version cell was written.
handle_incoming(msg_bytes, ver, dev) ==
    LET decoded == decode_msg(msg_bytes)
        nothing == {Outcome(None, ver, dev, FALSE)}
    IN IF ~decoded.ok THEN nothing
       ELSE LET msg == decoded.val IN
       IF ~msg.header.some THEN nothing
       ELSE LET msg_id   == msg.header.val.msg_id
                msg_type == msg.header.val.msg_type
            IN
       IF msg_type \notin MessageTypes THEN nothing
       ELSE IF ~msg.body.some THEN nothing
       ELSE LET body == msg.body.val IN
       CASE msg_type = "Get" ->
              LET g      == ReqOf(body, "Get")
                  paths  == IF g.some THEN g.val.param_paths ELSE <<>>
                  depth  == IF g.some THEN g.val.max_depth ELSE 0
                  params == get_params(dev, paths, depth)
              IN {Outcome(Encoded(build_get_resp(msg_id, params, order)), ver, dev, FALSE) :
                     order \in Orders(DOMAIN params)}
         [] msg_type = "Set" ->
              LET updates   == extract_set_updates(body)
                  obj_paths == extract_set_obj_paths(body)
              IN {Outcome(Encoded(Some(set_reply(msg_id, obj_paths, o.res))), ver, o.dev, FALSE) :
                     o \in set_params(dev, updates)}
         [] msg_type = "Operate" ->
              LET op == extract_operate(body)
              IN {Outcome(Encoded(Some(operate_reply(msg_id, op[1], op[2], o.res))), ver, o.dev, FALSE) :
                     o \in operate(dev, op[1], op[3])}
         [] msg_type = "NotifyResp" ->
              {Outcome(Encoded(notify_resp_reply(msg_id)), ver, dev, FALSE)}
         [] msg_type = "GetSupportedProtoResp" ->
              LET versions == extract_supported_versions(body)
              IN {Outcome(Encoded(Some(build_boot_notify(uuid, <<>>, FALSE, collect_boot_params))),
                          negotiate(ver, versions), dev, versions # <<>>) : uuid \in Uuids}
         [] OTHER ->
              {Outcome(Encoded(Some(unsupported_reply(msg_id, msg_type))), ver, dev, FALSE)}


\* ---------------------------------------------------------------------------
\* Inbound traffic: the messages, records and transport events a controller
\* (or anyone on the link) may deliver
\* ---------------------------------------------------------------------------

OtherId == "oui:00005A:someone-else"

NoBody    == None
EmptyBody == Some(Body(None))
GetBody(paths, max_depth) ==
    Some(Body(Some(Request(Some([tag |-> "Get", param_paths |-> paths, max_depth |-> max_depth])))))
SetBody(update_objs) ==
    Some(Body(Some(Request(Some([tag |-> "Set", update_objs |-> update_objs])))))
OperateBody(command, command_key, input_args) ==
    Some(Body(Some(Request(Some([tag |-> "Operate", command |-> command,
                                 command_key |-> command_key, input_args |-> input_args])))))
NotifyRespBody ==
    Some(Body(Some(Response(Some([tag |-> "NotifyResp", subscription_id |-> <<>>])))))
ProtoRespBody(versions) ==
    Some(Body(Some(Response(Some([tag |-> "GetSupportedProtoResp",
                                  agent_supported_versions |-> versions])))))
ErrBody == Some(Body(Some(ErrorBody(7002, <<"REQUEST_DENIED">>))))

In(msg_id, msg_type, body) == Msg(Some(Header(msg_id, msg_type)), body)

GetUpTime == GetBody(<< P_DeviceInfo \o <<"UpTime">> >>, 0)
GetSsid   == GetBody(<< P_WiFi \o <<"SSID", ".">> >>, 0)
SetSsid   ==
    SetBody(<< [obj_path |-> P_WiFi \o <<"SSID", ".", "1", ".">>,
                param_settings |-> << [param |-> <<"SSID">>, value |-> <<"guest-net">>] >>] >>)
SetHostName ==
    SetBody(<< [obj_path |-> P_DeviceInfo,
                param_settings |-> << [param |-> <<"HostName">>, value |-> <<"ap-7">>] >>] >>)

\* a Set of two objects, both accepted
SetTwo ==
    SetBody(<< [obj_path |-> P_WiFi \o <<"SSID", ".", "1", ".">>,
                param_settings |-> << [param |-> <<"SSID">>, value |-> <<"guest-net">>] >>],
               [obj_path |-> P_Security,
                param_settings |-> << [param |-> <<"Cert">>, value |-> <<"pem">>] >>] >>)
\* a Set of a parameter the WiFi handler does not know
SetBogus ==
    SetBody(<< [obj_path |-> P_WiFi \o <<"Radio", ".", "1", ".">>,
                param_settings |-> << [param |-> <<"Bogus">>, value |-> <<"x">>] >>] >>)
\* a Set of three updates, the second one to a read-only parameter
SetMany ==
    SetBody(<< [obj_path |-> P_WiFi \o <<"SSID", ".", "1", ".">>,
                param_settings |-> << [param |-> <<"SSID">>, value |-> <<"guest-net">>] >>],
               [obj_path |-> P_DeviceInfo,
                param_settings |-> << [param |-> <<"HostName">>, value |-> <<"ap-7">>] >>],
               [obj_path |-> P_WiFi \o <<"Radio", ".", "1", ".">>,
                param_settings |-> << [param |-> <<"Channel">>, value |-> <<"6">>] >>] >>)

\* agent_supported_versions texts: "1.4, 1.3", " 1.4\t,1.3", "1.3" and ""
VersionTexts ==
    { <<"1", ".", "4", ",", " ", "1", ".", "3">>,
      <<" ", "1", ".", "4", "\t", ",", "1", ".", "3">>,
      V13,
      <<>> }

InMsgs ==
    { In("m1", "Get", GetUpTime), In("m2", "Get", GetSsid),
      In("m1", "Get", NoBody),    In("m2", "Get", ErrBody),
      In("m1", "Set", SetSsid),   In("m2", "Set", SetHostName), In("m2", "Set", EmptyBody),
      In("m1", "Operate", OperateBody(<<"Device", ".", "Foo", ".", "Bar()">>, <<"k1">>, EmptyMap)),
      In("m2", "Operate", OperateBody(P_Security \o <<"IssueCert()">>, <<"k2">>, EmptyMap)),
      In("m1", "Operate", OperateBody(P_Firmware \o <<"Download()">>, <<>>, EmptyMap)),
      In("m1", "NotifyResp", NotifyRespBody), In("m2", "NotifyResp", NoBody),
      In("m1", "GetSupportedProtoResp", NoBody),
      In("m2", "GetSupportedProtoResp", GetUpTime),
      In("m1", "Add", EmptyBody), In("m2", "Add", NoBody),
      In("m1", "Delete", EmptyBody), In("m2", "GetInstances", EmptyBody),
      In("m1", "GetSupportedDm", EmptyBody),
      In("m1", "Notify", EmptyBody), In("m2", "99", EmptyBody),
      Msg(None, EmptyBody) }
    \cup { In("m1", "GetSupportedProtoResp", ProtoRespBody(v)) : v \in VersionTexts }

Bytes(msg) == encode_msg(msg).val

\* payload segment lists of an inbound SessionContext record
SegmentLists ==
    UNION { [1..n -> {Bytes(In("m2", "Get", GetUpTime)), Junk}] : n \in 0..MaxSegs }

\* messages sent with every addressing
AddressedMsgs ==
    { In("m1", "Get", GetUpTime), In("m1", "Set", SetSsid),
      In("m1", "GetSupportedProtoResp", ProtoRespBody(<<"1", ".", "4", ",", " ", "1", ".", "3">>)) }

InRecords ==
    { Record(V13, AgentId, ControllerId, Some(NoSessionContext(Bytes(m)))) : m \in InMsgs }
    \cup { Record(V13, AgentId, ControllerId, Some(NoSessionContext(Junk))) }
    \cup { Record(V13, AgentId, ControllerId, rt) :
              rt \in {None, Some(WebsocketConnect), Some(MqttConnect(<<"usp/v1/controller/x">>)),
                      Some(Disconnect(<<"bye">>))} }
    \cup { Record(V13, AgentId, ControllerId, Some(SessionContext(segs))) : segs \in SegmentLists }
    \cup { Record(V13, to, ControllerId, Some(NoSessionContext(Bytes(m)))) :
              to \in {"", OtherId}, m \in AddressedMsgs }
    \cup { Record(V13, to, "", Some(NoSessionContext(Bytes(In("m1", "Get", GetUpTime))))) :
              to \in {"", OtherId, AgentId} }

InData == {Junk} \cup { encode_record(r).val : r \in InRecords }

\* what ws.next() yields
WsFrames ==
    { [kind |-> "Binary", data |-> d] : d \in InData }
    \cup { [kind |-> "Ping", data |-> [enc |-> "ping payload"]], [kind |-> "Close"], [kind |-> "Text"],
           [kind |-> "End"], [kind |-> "IoError"] }

\* what event_loop.poll() yields
MqttEvents ==
    { [kind |-> "Publish", data |-> d] : d \in InData }
    \cup { [kind |-> "PingResp"], [kind |-> "IoError"] }


\* ---------------------------------------------------------------------------
\* Session context (usp/session.rs).  next_seq and expected_id are u64: no
\* run the model explores comes near 2^64, so the additions are exact.
\* ---------------------------------------------------------------------------

\* the most entries the retransmit buffer keeps
RetransmitCap == 256

\* SessionContext::new
session_new(session_id) ==
    [session_id |-> session_id, next_seq |-> 1, expected_id |-> 1, retransmit_buf |-> <<>>]

\* a next_sequence_id that stamps the incremented counter
next_sequence_id_preincrement(ctx, payload) ==
    LET seq    == ctx.next_seq + 1
        pushed == Append(ctx.retransmit_buf, <<seq, payload>>)
        kept   == IF Len(pushed) > RetransmitCap THEN Tail(pushed) ELSE pushed
    IN [ctx |-> [ctx EXCEPT !.next_seq = seq, !.retransmit_buf = kept], ret |-> seq]

\* a next_sequence_id that never evicts
next_sequence_id_unbounded(ctx, payload) ==
    [ctx |-> [ctx EXCEPT !.next_seq = ctx.next_seq + 1,
                         !.retransmit_buf = Append(ctx.retransmit_buf, <<ctx.next_seq, payload>>)],
     ret |-> ctx.next_seq]

\* SessionContext::next_sequence_id: the context it leaves and the value it
\* returns
next_sequence_id(ctx, payload) ==
    LET seq    == ctx.next_seq
        pushed == Append(ctx.retransmit_buf, <<seq, payload>>)
        kept   == IF Len(pushed) > RetransmitCap THEN Tail(pushed) ELSE pushed
    IN [ctx |-> [ctx EXCEPT !.next_seq = seq + 1, !.retransmit_buf = kept], ret |-> seq]

\* an advance_expected that also skips an outgoing sequence id
advance_expected_both(ctx) ==
    [ctx EXCEPT !.expected_id = @ + 1, !.next_seq = @ + 1]

\* SessionContext::advance_expected
advance_expected(ctx) == [ctx EXCEPT !.expected_id = @ + 1]

\* a retransmit that takes the seq_id as the position in the buffer
retransmit_by_position(ctx, seq_id) ==
    IF seq_id \in 1..Len(ctx.retransmit_buf)
    THEN Some(ctx.retransmit_buf[seq_id][2]) ELSE None

\* SessionContext::retransmit: the first entry with this id, if any
retransmit(ctx, seq_id) ==
    LET hits == {i \in 1..Len(ctx.retransmit_buf) : ctx.retransmit_buf[i][1] = seq_id}
    IN IF hits = {} THEN None
       ELSE Some(ctx.retransmit_buf[CHOOSE i \in hits : \A j \in hits : i <= j][2])


\* ---------------------------------------------------------------------------
\* State
\* ---------------------------------------------------------------------------

VARIABLES
    cfg,             \* the loaded configuration: [mtp, mqtt_url]
    pc,              \* per MTP task: where its run loop is
    negotiated_ver,  \* per MTP task: the version cell its run() created
    stored,          \* per MTP task: the cell was written from a GetSupportedProtoResp
    dev,             \* the device: UCI configuration and firmware image
    last,            \* the step taken last: its MTP and the event it served
    sent,            \* the frames that step handed to the transport, in order
    inbox,           \* per MTP: the frames the transport holds, not yet taken by the loop
    handling,        \* per MTP: the frame taken whose reply is not yet handed over
    ticket,          \* per MTP: arrival numbers [arrived, taken, replied]
    session,         \* the SessionContext of the peer, once one is created
    tasks,           \* main's position and the number of running tasks of each kind
    gnss             \* the GNSS reader: the shared position, the reader's state, the line read last

\* the variables of the loop seen frame by frame (take, handle, send)
loopvars == <<inbox, handling, ticket>>

vars == <<cfg, pc, negotiated_ver, stored, dev, last, sent, inbox, handling, ticket, session, tasks, gnss>>

MTPs == {"ws", "mqtt"}

\* configurations validate_config accepts (main.rs derives ws_url from
\* server_host, so the WebSocket URL is always present when it is needed)
Configs ==
    { [mtp |-> "WebSocket", mqtt_url |-> FALSE],
      [mtp |-> "Mqtt",      mqtt_url |-> TRUE],
      [mtp |-> "Both",      mqtt_url |-> TRUE],
      [mtp |-> "Both",      mqtt_url |-> FALSE] }

Selected(c, m) ==
    \/ m = "ws"   /\ c.mtp \in {"WebSocket", "Both"}
    \/ m = "mqtt" /\ c.mtp \in {"Mqtt", "Both"}

\* a frame handed to the transport; ok: the transport took it
Out(kind, data, ok) == [kind |-> kind, data |-> data, ok |-> ok]

\* spawn_gnss_reader: the shared position is None and the reader task has
\* not opened the device yet
NoFix == [position |-> None, reader |-> "open", line |-> <<>>, wrote |-> FALSE]

\* main before its loop: no task runs yet
NoTasks == [main |-> "call", status |-> 0, ws |-> 0, mqtt |-> 0]

\* agent::run: spawn status_loop, then start the selected MTPs (in Both mode
\* mqtt::run is spawned and websocket::run awaited); main awaits agent::run
Started(t, c) ==
    [main   |-> "await",
     status |-> t.status + 1,
     ws     |-> t.ws   + (IF Selected(c, "ws")   THEN 1 ELSE 0),
     mqtt   |-> t.mqtt + (IF Selected(c, "mqtt") THEN 1 ELSE 0)]

Init ==
    /\ cfg \in Configs
    /\ pc = [m \in MTPs |-> IF Selected(cfg, m) THEN "connect" ELSE "off"]
    /\ negotiated_ver = [m \in MTPs |-> V13]
    /\ stored = [m \in MTPs |-> FALSE]
    /\ dev = InitDev
    /\ last = [mtp |-> "none", ev |-> [kind |-> "start"]]
    /\ sent = <<>>
    /\ inbox = [m \in MTPs |-> <<>>]
    /\ handling = [m \in MTPs |-> None]
    /\ ticket = [m \in MTPs |-> [arrived |-> 0, taken |-> 0, replied |-> 0]]
    /\ session = None
    /\ tasks = Started(NoTasks, cfg)
    /\ gnss = NoFix

\* ---------------------------------------------------------------------------
\* WebSocket MTP (usp/mtp/websocket.rs)
\* ---------------------------------------------------------------------------

\* connect_and_serve up to the serve loop: TLS and handshake, then the
\* connect record and the GetSupportedProto request.  `upto` is how far the
\* transport lets it get.
\* the flow of the module comment of usp/agent.rs: connect, then Boot! Notify
ws_opening_with_boot(uuid) ==
    << encode_record(websocket_connect_record(AgentId, ControllerId)).val,
       encode_record(no_session_record(AgentId, ControllerId,
                                       encode_msg(build_boot_notify(uuid, <<>>, FALSE,
                                                                    collect_boot_params)).val, V13)).val >>

ws_opening(uuid) ==
    << encode_record(websocket_connect_record(AgentId, ControllerId)).val,
       encode_record(no_session_record(AgentId, ControllerId,
                                       encode_msg(build_get_supported_proto(uuid)).val, V13)).val >>

WsConnect ==
    /\ pc["ws"] = "connect"
    /\ \E upto \in 0..3, uuid \in Uuids :
          LET opening == ws_opening(uuid)
          IN /\ sent' = CASE upto = 0 -> <<>>
                          [] upto = 1 -> << Out("Binary", opening[1], FALSE) >>
                          [] upto = 2 -> << Out("Binary", opening[1], TRUE),
                                            Out("Binary", opening[2], FALSE) >>
                          [] upto = 3 -> << Out("Binary", opening[1], TRUE),
                                            Out("Binary", opening[2], TRUE) >>
             /\ pc' = [pc EXCEPT !["ws"] = IF upto = 3 THEN "serve" ELSE "sleep"]
    /\ last' = [mtp |-> "ws", ev |-> [kind |-> "connect"]]
    /\ UNCHANGED <<cfg, tasks, gnss, session, negotiated_ver, stored, dev, loopvars>>

\* the to_id check left out
ws_accepts_any(record) == FALSE

\* the to_id check of the serve loop
ws_discards(record) == record.to_id # "" /\ record.to_id # AgentId

\* the response stamped "1.3" like the opening records
ws_response_record_v13(record, resp, ver) == no_session_record(AgentId, record.from_id, resp, V13)

\* the record that carries a response back
ws_response_record(record, resp, ver) == no_session_record(AgentId, record.from_id, resp, ver)

\* one Binary frame: the set of outcomes [out, ver, dev, stored], out being
\* the records to send (none or one)
ws_binary(data, ver, d) ==
    LET quiet  == {[out |-> <<>>, ver |-> ver, dev |-> d, stored |-> FALSE]}
        record == decode_record(data)
    IN IF ~record.ok THEN quiet
       ELSE IF ws_discards(record.val) THEN quiet
       ELSE LET msg_bytes == extract_msg_payload(record.val)
            IN IF ~msg_bytes.some THEN quiet
               ELSE { [out |-> IF o.resp.some
                               THEN << ws_response_record(record.val, o.resp.val, o.ver) >>
                               ELSE <<>>,
                       ver |-> o.ver, dev |-> o.dev, stored |-> o.stored] :
                      o \in handle_incoming(msg_bytes.val, ver, d) }

\* a serve loop that answers a Ping with an empty Pong
WsServeFrame_empty_pong(frame) ==
    /\ last' = [mtp |-> "ws", ev |-> frame]
    /\ CASE frame.kind = "Binary" ->
              \E o \in ws_binary(frame.data, negotiated_ver["ws"], dev) :
              \E ok \in (IF o.out = <<>> THEN {TRUE} ELSE BOOLEAN) :
                 /\ sent' = [i \in 1..Len(o.out) |->
                                Out("Binary", encode_record(o.out[i]).val, ok)]
                 /\ negotiated_ver' = [negotiated_ver EXCEPT !["ws"] = o.ver]
                 /\ stored' = [stored EXCEPT !["ws"] = @ \/ o.stored]
                 /\ dev' = o.dev
                 /\ pc' = [pc EXCEPT !["ws"] = IF ok THEN "serve" ELSE "sleep"]
         [] frame.kind = "Ping" ->
              \E ok \in BOOLEAN :
                 /\ sent' = << Out("Pong", [enc |-> "ping payload", body |-> <<>>], ok) >>
                 /\ pc' = [pc EXCEPT !["ws"] = IF ok THEN "serve" ELSE "sleep"]
                 /\ UNCHANGED <<negotiated_ver, stored, dev>>
         [] frame.kind \in {"Close", "End", "IoError"} ->
              /\ sent' = <<>>
              /\ pc' = [pc EXCEPT !["ws"] = "sleep"]
              /\ UNCHANGED <<negotiated_ver, stored, dev>>
         [] OTHER ->
              /\ sent' = <<>>
              /\ UNCHANGED <<pc, negotiated_ver, stored, dev>>

\* one pass of the serve loop, on the frame ws.next() yielded
WsServeFrame(frame) ==
    /\ last' = [mtp |-> "ws", ev |-> frame]
    /\ CASE frame.kind = "Binary" ->
              \E o \in ws_binary(frame.data, negotiated_ver["ws"], dev) :
              \E ok \in (IF o.out = <<>> THEN {TRUE} ELSE BOOLEAN) :
                 /\ sent' = [i \in 1..Len(o.out) |->
                                Out("Binary", encode_record(o.out[i]).val, ok)]
                 /\ negotiated_ver' = [negotiated_ver EXCEPT !["ws"] = o.ver]
                 /\ stored' = [stored EXCEPT !["ws"] = @ \/ o.stored]
                 /\ dev' = o.dev
                 /\ pc' = [pc EXCEPT !["ws"] = IF ok THEN "serve" ELSE "sleep"]
         [] frame.kind = "Ping" ->
              \E ok \in BOOLEAN :
                 /\ sent' = << Out("Pong", frame.data, ok) >>
                 /\ pc' = [pc EXCEPT !["ws"] = IF ok THEN "serve" ELSE "sleep"]
                 /\ UNCHANGED <<negotiated_ver, stored, dev>>
         [] frame.kind \in {"Close", "End", "IoError"} ->
              /\ sent' = <<>>
              /\ pc' = [pc EXCEPT !["ws"] = "sleep"]
              /\ UNCHANGED <<negotiated_ver, stored, dev>>
         [] OTHER ->
              /\ sent' = <<>>
              /\ UNCHANGED <<pc, negotiated_ver, stored, dev>>

WsServe ==
    /\ pc["ws"] = "serve"
    /\ \E frame \in WsFrames : WsServeFrame(frame)
    /\ UNCHANGED <<cfg, tasks, gnss, session, loopvars>>

\* the version cell created inside the reconnect loop: every reconnect starts
\* from "1.3" again
WsReconnectFreshCell ==
    /\ pc["ws"] = "sleep"
    /\ pc' = [pc EXCEPT !["ws"] = "connect"]
    /\ negotiated_ver' = [negotiated_ver EXCEPT !["ws"] = V13]
    /\ last' = [mtp |-> "ws", ev |-> [kind |-> "reconnect"]]
    /\ sent' = <<>>
    /\ UNCHANGED <<cfg, tasks, gnss, session, stored, dev, loopvars>>

\* run: after connect_and_serve returns, sleep RECONNECT_DELAY and loop
WsReconnect ==
    /\ pc["ws"] = "sleep"
    /\ pc' = [pc EXCEPT !["ws"] = "connect"]
    /\ last' = [mtp |-> "ws", ev |-> [kind |-> "reconnect"]]
    /\ sent' = <<>>
    /\ UNCHANGED <<cfg, tasks, gnss, session, negotiated_ver, stored, dev, loopvars>>

\* ---------------------------------------------------------------------------
\* MQTT MTP (usp/mtp/mqtt.rs)
\* ---------------------------------------------------------------------------

\* sanitise_topic(agent_id): ':' , '#' and '+' percent-encoded
SanitisedAgentId == "oui%3A00005A%3Aaa%3Abb%3Acc%3Add%3Aee%3Aff"

\* the agent's inbox topic
AgentTopic == <<"usp/v1/agent/", SanitisedAgentId>>

\* run with no mqtt_url configured: the task returns
MqttDisabled ==
    /\ pc["mqtt"] = "connect"
    /\ ~cfg.mqtt_url
    /\ pc' = [pc EXCEPT !["mqtt"] = "done"]
    /\ tasks' = [tasks EXCEPT !.mqtt = @ - 1]
    /\ last' = [mtp |-> "mqtt", ev |-> [kind |-> "disabled"]]
    /\ sent' = <<>>
    /\ UNCHANGED <<cfg, gnss, session, negotiated_ver, stored, dev, loopvars>>

\* mqtt_loop up to the event loop: subscribe, then publish the connect record
mqtt_opening ==
    << encode_record(mqtt_connect_record(AgentId, ControllerId, AgentTopic)).val >>

MqttConnect_ ==
    /\ pc["mqtt"] = "connect"
    /\ cfg.mqtt_url
    /\ \E upto \in 0..2 :
          /\ sent' = CASE upto = 0 -> <<>>
                       [] upto = 1 -> << Out("Publish", mqtt_opening[1], FALSE) >>
                       [] upto = 2 -> << Out("Publish", mqtt_opening[1], TRUE) >>
          /\ pc' = [pc EXCEPT !["mqtt"] = IF upto = 2 THEN "serve" ELSE "sleep"]
    /\ last' = [mtp |-> "mqtt", ev |-> [kind |-> "connect"]]
    /\ UNCHANGED <<cfg, tasks, gnss, session, negotiated_ver, stored, dev, loopvars>>

mqtt_discards(record) == record.to_id # "" /\ record.to_id # AgentId

\* from and to given in the wrong order
mqtt_response_record_swapped(record, resp, ver) ==
    no_session_record(record.from_id, AgentId, resp, ver)

mqtt_response_record(record, resp, ver) == no_session_record(AgentId, record.from_id, resp, ver)

mqtt_publish(data, ver, d) ==
    LET quiet  == {[out |-> <<>>, ver |-> ver, dev |-> d, stored |-> FALSE]}
        record == decode_record(data)
    IN IF ~record.ok THEN quiet
       ELSE IF mqtt_discards(record.val) THEN quiet
       ELSE LET msg_bytes == extract_msg_payload(record.val)
            IN IF ~msg_bytes.some THEN quiet
               ELSE { [out |-> IF o.resp.some
                               THEN << mqtt_response_record(record.val, o.resp.val, o.ver) >>
                               ELSE <<>>,
                       ver |-> o.ver, dev |-> o.dev, stored |-> o.stored] :
                      o \in handle_incoming(msg_bytes.val, ver, d) }

\* one pass of the loop, on the event event_loop.poll() yielded
MqttServeEvent(event) ==
    /\ last' = [mtp |-> "mqtt", ev |-> event]
    /\ CASE event.kind = "Publish" ->
              \E o \in mqtt_publish(event.data, negotiated_ver["mqtt"], dev) :
              \E ok \in (IF o.out = <<>> THEN {TRUE} ELSE BOOLEAN) :
                 /\ sent' = [i \in 1..Len(o.out) |->
                                Out("Publish", encode_record(o.out[i]).val, ok)]
                 /\ negotiated_ver' = [negotiated_ver EXCEPT !["mqtt"] = o.ver]
                 /\ stored' = [stored EXCEPT !["mqtt"] = @ \/ o.stored]
                 /\ dev' = o.dev
                 /\ UNCHANGED pc
         [] event.kind = "IoError" ->
              /\ sent' = <<>>
              /\ pc' = [pc EXCEPT !["mqtt"] = "sleep"]
              /\ UNCHANGED <<negotiated_ver, stored, dev>>
         [] OTHER ->
              /\ sent' = <<>>
              /\ UNCHANGED <<pc, negotiated_ver, stored, dev>>

MqttServe ==
    /\ pc["mqtt"] = "serve"
    /\ \E event \in MqttEvents : MqttServeEvent(event)
    /\ UNCHANGED <<cfg, tasks, gnss, session, loopvars>>

\* a loop with a retry limit: it returns instead of connecting again
MqttGiveUp ==
    /\ pc["mqtt"] = "sleep"
    /\ pc' = [pc EXCEPT !["mqtt"] = "done"]
    /\ last' = [mtp |-> "mqtt", ev |-> [kind |-> "reconnect"]]
    /\ sent' = <<>>
    /\ UNCHANGED <<cfg, tasks, gnss, session, negotiated_ver, stored, dev, loopvars>>

\* run: after mqtt_loop returns, sleep RECONNECT_DELAY and loop
MqttReconnect ==
    /\ pc["mqtt"] = "sleep"
    /\ pc' = [pc EXCEPT !["mqtt"] = "connect"]
    /\ last' = [mtp |-> "mqtt", ev |-> [kind |-> "reconnect"]]
    /\ sent' = <<>>
    /\ UNCHANGED <<cfg, tasks, gnss, session, negotiated_ver, stored, dev, loopvars>>

\* the MTP task whose run() agent::run awaits; in Both mode the MQTT task is
\* spawned and not awaited
\* agent::run awaiting the MQTT task in Both mode
Awaited_mqtt_in_both(c) == IF c.mtp = "WebSocket" THEN "ws" ELSE "mqtt"

Awaited(c) == IF c.mtp = "Mqtt" THEN "mqtt" ELSE "ws"

\* main: agent::run has returned (the awaited MTP task exited); after 30 s
\* agent::run is called again and starts the selected MTP tasks afresh.  With
\* a configuration validate_config accepts the awaited task never returns, so
\* this step is not among those the program takes.
AgentRestart ==
    /\ pc[Awaited(cfg)] = "done"
    /\ pc' = [m \in MTPs |-> IF Selected(cfg, m) THEN "connect" ELSE "off"]
    /\ negotiated_ver' = [m \in MTPs |-> V13]
    /\ stored' = [m \in MTPs |-> FALSE]
    /\ tasks' = Started(tasks, cfg)
    /\ last' = [mtp |-> "none", ev |-> [kind |-> "restart"]]
    /\ sent' = <<>>
    /\ UNCHANGED <<cfg, gnss, session, dev, loopvars>>

Next ==
    \/ WsConnect
    \/ WsServe
    \/ WsReconnect
    \/ MqttDisabled
    \/ MqttConnect_
    \/ MqttServe
    \/ MqttReconnect

Spec == Init /\ [][Next]_vars


\* ---------------------------------------------------------------------------
\* The serve loops frame by frame
\*
\* WsServe and MqttServe above take one pass of the loop as a single step.
\* Here the same pass is three steps, so that frames can arrive while a frame
\* is being handled: the transport queues a frame (OrdArrive), the loop takes
\* the next one with ws.next() / event_loop.poll() and runs handle_incoming
\* (OrdWsTake, OrdMqttTake), and hands the reply to the transport (OrdWsSend,
\* OrdMqttSend).
\* ---------------------------------------------------------------------------

\* frames the open connections may receive, both MTPs together
MaxArrivals == 3

\* the inbound data of this specification: a Get (answered) and a NotifyResp
\* (not answered)
OrderData ==
    { encode_record(Record(V13, AgentId, ControllerId,
                           Some(NoSessionContext(Bytes(In("m1", "Get", GetUpTime)))))).val,
      encode_record(Record(V13, AgentId, ControllerId,
                           Some(NoSessionContext(Bytes(In("m2", "NotifyResp", NotifyRespBody)))))).val }

OrderFrames(m) ==
    IF m = "ws"
    THEN { [kind |-> "Binary", data |-> d] : d \in OrderData }
         \cup { [kind |-> "Ping", data |-> [enc |-> "ping payload"]], [kind |-> "Close"],
                [kind |-> "End"], [kind |-> "IoError"] }
    ELSE { [kind |-> "Publish", data |-> d] : d \in OrderData }
         \cup { [kind |-> "IoError"], [kind |-> "PingResp"] }

SetTicket(m, field, n) == [ticket EXCEPT ![m][field] = n]

\* the transport receives a frame of an open connection and queues it
OrdArrive ==
    \E m \in MTPs :
       /\ pc[m] = "serve"
       /\ ticket["ws"].arrived + ticket["mqtt"].arrived < MaxArrivals
       /\ \E frame \in OrderFrames(m) :
             inbox' = [inbox EXCEPT ![m] =
                          Append(@, [n |-> ticket[m].arrived + 1, frame |-> frame])]
       /\ ticket' = SetTicket(m, "arrived", ticket[m].arrived + 1)
       /\ UNCHANGED <<cfg, tasks, gnss, session, pc, negotiated_ver, stored, dev, last, sent, handling>>

\* what ws.next() / event_loop.poll() yields: the oldest frame queued
next_frame(queue) == Head(queue)

\* the connection is over: what it still held is gone, the next connection
\* numbers its frames from 1
Dropped(m) ==
    /\ inbox' = [inbox EXCEPT ![m] = <<>>]
    /\ handling' = [handling EXCEPT ![m] = None]
    /\ ticket' = [ticket EXCEPT ![m] = [arrived |-> 0, taken |-> 0, replied |-> 0]]

\* the frames to hand over for the records `out`
Framed(kind, n, out) ==
    IF out = <<>> THEN None
    ELSE Some([n |-> n, out |-> [i \in 1..Len(out) |->
                                    [kind |-> kind, data |-> encode_record(out[i]).val]]])

\* a handler task spawned per frame: the loop goes on to the next frame while
\* a reply is still to be sent
OrdWsTakeSpawned ==
    /\ pc["ws"] = "serve"
    /\ inbox["ws"] # <<>>
    /\ LET item == next_frame(inbox["ws"]) IN
       /\ item.frame.kind = "Binary"
       /\ last' = [mtp |-> "ws", ev |-> item.frame]
       /\ sent' = <<>>
       /\ \E o \in ws_binary(item.frame.data, negotiated_ver["ws"], dev) :
             /\ negotiated_ver' = [negotiated_ver EXCEPT !["ws"] = o.ver]
             /\ stored' = [stored EXCEPT !["ws"] = @ \/ o.stored]
             /\ dev' = o.dev
             /\ handling' = [handling EXCEPT !["ws"] =
                               IF o.out = <<>> THEN @ ELSE Framed("Binary", item.n, o.out)]
       /\ inbox' = [inbox EXCEPT !["ws"] = Tail(@)]
       /\ ticket' = SetTicket("ws", "taken", item.n)
       /\ UNCHANGED <<cfg, tasks, gnss, session, pc>>

\* connect_and_serve, one pass of the loop up to the send: the frame is taken
\* and, if Binary, decoded and handled
OrdWsTake ==
    /\ pc["ws"] = "serve"
    /\ ~handling["ws"].some
    /\ inbox["ws"] # <<>>
    /\ LET item == next_frame(inbox["ws"])
           frame == item.frame
       IN
       /\ last' = [mtp |-> "ws", ev |-> frame]
       /\ sent' = <<>>
       /\ CASE frame.kind = "Binary" ->
                 \E o \in ws_binary(frame.data, negotiated_ver["ws"], dev) :
                    /\ negotiated_ver' = [negotiated_ver EXCEPT !["ws"] = o.ver]
                    /\ stored' = [stored EXCEPT !["ws"] = @ \/ o.stored]
                    /\ dev' = o.dev
                    /\ handling' = [handling EXCEPT !["ws"] = Framed("Binary", item.n, o.out)]
                    /\ inbox' = [inbox EXCEPT !["ws"] = Tail(@)]
                    /\ ticket' = SetTicket("ws", "taken", item.n)
                    /\ UNCHANGED pc
            [] frame.kind = "Ping" ->
                 /\ handling' = [handling EXCEPT !["ws"] =
                                   Some([n |-> item.n,
                                         out |-> << [kind |-> "Pong", data |-> frame.data] >>])]
                 /\ inbox' = [inbox EXCEPT !["ws"] = Tail(@)]
                 /\ ticket' = SetTicket("ws", "taken", item.n)
                 /\ UNCHANGED <<pc, negotiated_ver, stored, dev>>
            [] frame.kind \in {"Close", "End", "IoError"} ->
                 /\ pc' = [pc EXCEPT !["ws"] = "sleep"]
                 /\ Dropped("ws")
                 /\ UNCHANGED <<negotiated_ver, stored, dev>>
            [] OTHER ->
                 /\ inbox' = [inbox EXCEPT !["ws"] = Tail(@)]
                 /\ ticket' = SetTicket("ws", "taken", item.n)
                 /\ UNCHANGED <<pc, negotiated_ver, stored, dev, handling>>
    /\ UNCHANGED <<cfg, tasks, gnss, session>>

\* ... and the send that ends the pass: ws.send(..).await?
OrdWsSend ==
    /\ pc["ws"] = "serve"
    /\ handling["ws"].some
    /\ LET h == handling["ws"].val IN
       \E ok \in BOOLEAN :
          /\ sent' = [i \in 1..Len(h.out) |-> Out(h.out[i].kind, h.out[i].data, ok)]
          /\ last' = [mtp |-> "ws", ev |-> [kind |-> "send"]]
          /\ IF ok
             THEN /\ handling' = [handling EXCEPT !["ws"] = None]
                  /\ ticket' = SetTicket("ws", "replied", h.n)
                  /\ UNCHANGED <<pc, inbox>>
             ELSE /\ pc' = [pc EXCEPT !["ws"] = "sleep"]
                  /\ Dropped("ws")
    /\ UNCHANGED <<cfg, tasks, gnss, session, negotiated_ver, stored, dev>>

\* mqtt_loop, one pass of the loop up to the publish
OrdMqttTake ==
    /\ pc["mqtt"] = "serve"
    /\ ~handling["mqtt"].some
    /\ inbox["mqtt"] # <<>>
    /\ LET item == next_frame(inbox["mqtt"])
           event == item.frame
       IN
       /\ last' = [mtp |-> "mqtt", ev |-> event]
       /\ sent' = <<>>
       /\ CASE event.kind = "Publish" ->
                 \E o \in mqtt_publish(event.data, negotiated_ver["mqtt"], dev) :
                    /\ negotiated_ver' = [negotiated_ver EXCEPT !["mqtt"] = o.ver]
                    /\ stored' = [stored EXCEPT !["mqtt"] = @ \/ o.stored]
                    /\ dev' = o.dev
                    /\ handling' = [handling EXCEPT !["mqtt"] = Framed("Publish", item.n, o.out)]
                    /\ inbox' = [inbox EXCEPT !["mqtt"] = Tail(@)]
                    /\ ticket' = SetTicket("mqtt", "taken", item.n)
                    /\ UNCHANGED pc
            [] event.kind = "IoError" ->
                 /\ pc' = [pc EXCEPT !["mqtt"] = "sleep"]
                 /\ Dropped("mqtt")
                 /\ UNCHANGED <<negotiated_ver, stored, dev>>
            [] OTHER ->
                 /\ inbox' = [inbox EXCEPT !["mqtt"] = Tail(@)]
                 /\ ticket' = SetTicket("mqtt", "taken", item.n)
                 /\ UNCHANGED <<pc, negotiated_ver, stored, dev, handling>>
    /\ UNCHANGED <<cfg, tasks, gnss, session>>

\* ... and the publish that ends the pass; its result is not looked at
OrdMqttSend ==
    /\ pc["mqtt"] = "serve"
    /\ handling["mqtt"].some
    /\ LET h == handling["mqtt"].val IN
       \E ok \in BOOLEAN :
          /\ sent' = [i \in 1..Len(h.out) |-> Out(h.out[i].kind, h.out[i].data, ok)]
          /\ ticket' = SetTicket("mqtt", "replied", h.n)
    /\ last' = [mtp |-> "mqtt", ev |-> [kind |-> "send"]]
    /\ handling' = [handling EXCEPT !["mqtt"] = None]
    /\ UNCHANGED <<cfg, tasks, gnss, session, pc, negotiated_ver, stored, dev, inbox>>

OrderNext ==
    \/ WsConnect
    \/ OrdArrive
    \/ OrdWsTake
    \/ OrdWsSend
    \/ WsReconnect
    \/ MqttDisabled
    \/ MqttConnect_
    \/ OrdMqttTake
    \/ OrdMqttSend
    \/ MqttReconnect

OrderSpec == Init /\ [][OrderNext]_vars

\* tokio::time::sleep(RECONNECT_DELAY) returns and the runtime resumes the
\* task: a loop that sleeps does reconnect
FairSpec == OrderSpec /\ WF_vars(WsReconnect) /\ WF_vars(MqttReconnect)

\* ---------------------------------------------------------------------------
\* The engine on Set and Operate: the same loops, receiving only Records for
\* the agent that carry a Set or an Operate
\* ---------------------------------------------------------------------------

DmMsgs ==
    { In("m1", "Set", SetSsid), In("m2", "Set", SetHostName), In("m2", "Set", EmptyBody),
      In("m1", "Set", SetTwo), In("m2", "Set", SetBogus), In("m1", "Set", SetMany),
      In("m1", "Operate", OperateBody(<<"Device", ".", "Foo", ".", "Bar()">>, <<"k1">>, EmptyMap)),
      In("m2", "Operate", OperateBody(P_Security \o <<"IssueCert()">>, <<"k2">>, EmptyMap)),
      In("m1", "Operate", OperateBody(P_Firmware \o <<"Download()">>, <<>>, EmptyMap)),
      In("m2", "Operate", OperateBody(P_Firmware \o <<"Download()">>, <<"k3">>,
                                      [k \in {<<"url">>} |-> <<"http://fw/img.bin">>])),
      In("m1", "Operate", OperateBody(P_Camera \o <<"1", ".", "Download()">>, <<"k4">>, EmptyMap)),
      In("m2", "Operate", OperateBody(P_Camera \o <<"1", ".", "Capture()">>, <<"k5">>, EmptyMap)),
      In("m2", "Operate", EmptyBody) }

DmData ==
    { encode_record(Record(V13, AgentId, ControllerId, Some(NoSessionContext(Bytes(m))))).val :
         m \in DmMsgs }

DmWsServe ==
    /\ pc["ws"] = "serve"
    /\ \E d \in DmData : WsServeFrame([kind |-> "Binary", data |-> d])
    /\ UNCHANGED <<cfg, tasks, gnss, session, loopvars>>

DmMqttServe ==
    /\ pc["mqtt"] = "serve"
    /\ \E d \in DmData : MqttServeEvent([kind |-> "Publish", data |-> d])
    /\ UNCHANGED <<cfg, tasks, gnss, session, loopvars>>

DmNext ==
    \/ WsConnect
    \/ DmWsServe
    \/ WsReconnect
    \/ MqttDisabled
    \/ MqttConnect_
    \/ DmMqttServe

DmSpec == Init /\ [][DmNext]_vars

\* ---------------------------------------------------------------------------
\* The engine on Get: the same loops, receiving only Records for the agent
\* that carry a Get (and one Set, so that the device read is not always the
\* device as shipped)
\* ---------------------------------------------------------------------------

P_Ssid1 == P_WiFi \o <<"SSID", ".", "1", ".">>

GetMsgs ==
    { In("m1", "Get", GetUpTime),
      In("m2", "Get", GetBody(<<P_WiFi>>, 0)),
      In("m1", "Get", GetBody(<<P_WiFi>>, 1)),
      In("m2", "Get", GetBody(<<P_WiFi>>, 2)),
      In("m1", "Get", GetBody(<<P_Ssid1, P_WiFi>>, 1)),
      In("m2", "Get", GetBody(<<P_IPInterface>>, 2)),
      In("m1", "Get", GetBody(<<P_IPInterface>>, 3)),
      In("m2", "Get", GetBody(<<P_Firmware, P_Ssid1>>, 0)),
      In("m1", "Get", GetBody(<< P_DeviceInfo \o <<"UpTime">>, P_DeviceInfo \o <<"UpTime">> >>, 0)),
      In("m2", "Get", GetBody(<< P_Device \o <<"Unknown", ".">> >>, 0)),
      In("m1", "Get", GetBody(<< P_Security, P_DeviceInfo \o <<"UpTime">> >>, 0)),
      In("m2", "Get", GetBody(<< P_Ssid1, P_Device \o <<"Unknown", ".">>, P_Firmware >>, 1)),
      In("m1", "Get", GetBody(<< P_Security >>, 0)),
      In("m1", "Get", GetBody(<<>>, 1)),
      In("m2", "Get", ErrBody),
      In("m1", "Set", SetSsid) }

GetData ==
    { encode_record(Record(V13, AgentId, ControllerId, Some(NoSessionContext(Bytes(m))))).val :
         m \in GetMsgs }

GetWsServe ==
    /\ pc["ws"] = "serve"
    /\ \E d \in GetData : WsServeFrame([kind |-> "Binary", data |-> d])
    /\ UNCHANGED <<cfg, tasks, gnss, session, loopvars>>

GetMqttServe ==
    /\ pc["mqtt"] = "serve"
    /\ \E d \in GetData : MqttServeEvent([kind |-> "Publish", data |-> d])
    /\ UNCHANGED <<cfg, tasks, gnss, session, loopvars>>

GetNext ==
    \/ WsConnect
    \/ GetWsServe
    \/ WsReconnect
    \/ MqttDisabled
    \/ MqttConnect_
    \/ GetMqttServe

GetSpec == Init /\ [][GetNext]_vars

\* ---------------------------------------------------------------------------
\* The engine on every kind of Record: the same loops, receiving Records
\* addressed to the agent of each record type, the SessionContext ones with
\* up to MaxPayloadSegs segments
\* ---------------------------------------------------------------------------

MaxPayloadSegs == 2

PayloadSegments ==
    { Bytes(In("m1", "Get", GetUpTime)), Bytes(In("m2", "Set", SetSsid)), Junk }

PayloadRecords ==
    { Record(V13, AgentId, ControllerId, rt) :
         rt \in {None, Some(WebsocketConnect), Some(MqttConnect(<<"usp/v1/controller/x">>)),
                 Some(Disconnect(<<"bye">>))}
                \cup { Some(NoSessionContext(b)) : b \in PayloadSegments }
                \cup { Some(SessionContext(segs)) :
                          segs \in UNION { [1..n -> PayloadSegments] : n \in 0..MaxPayloadSegs } } }
    \cup { Record(V13, "", ControllerId, rt) :
              rt \in {Some(WebsocketConnect), Some(SessionContext(<<>>)),
                      Some(NoSessionContext(Bytes(In("m1", "Get", GetUpTime))))} }

PayloadData == { encode_record(r).val : r \in PayloadRecords }

PayloadWsServe ==
    /\ pc["ws"] = "serve"
    /\ \E d \in PayloadData : WsServeFrame([kind |-> "Binary", data |-> d])
    /\ UNCHANGED <<cfg, tasks, gnss, session, loopvars>>

PayloadMqttServe ==
    /\ pc["mqtt"] = "serve"
    /\ \E d \in PayloadData : MqttServeEvent([kind |-> "Publish", data |-> d])
    /\ UNCHANGED <<cfg, tasks, gnss, session, loopvars>>

PayloadNext ==
    \/ WsConnect
    \/ PayloadWsServe
    \/ WsReconnect
    \/ MqttDisabled
    \/ MqttConnect_
    \/ PayloadMqttServe

PayloadSpec == Init /\ [][PayloadNext]_vars

\* ---------------------------------------------------------------------------
\* The WebSocket loop on every kind of frame: the WebSocket MTP alone,
\* receiving Pings of several payloads, Close, Text, Pong and raw frames, the
\* end of the stream, read errors and the Binary frames of the Gets
\* ---------------------------------------------------------------------------

PingPayloads ==
    { [enc |-> "ping payload", body |-> <<>>],
      [enc |-> "ping payload", body |-> <<"a">>],
      [enc |-> "ping payload", body |-> <<"a", "b">>] }

AllWsFrames ==
    { [kind |-> "Ping", data |-> p] : p \in PingPayloads }
    \cup { [kind |-> "Close"], [kind |-> "Text"], [kind |-> "Pong"], [kind |-> "Frame"],
           [kind |-> "End"], [kind |-> "IoError"] }
    \cup { [kind |-> "Binary", data |-> d] : d \in GetData }

FrameWsServe ==
    /\ pc["ws"] = "serve"
    /\ \E frame \in AllWsFrames : WsServeFrame(frame)
    /\ UNCHANGED <<cfg, tasks, gnss, session, loopvars>>

FrameNext ==
    \/ WsConnect
    \/ FrameWsServe
    \/ WsReconnect

FrameInit == Init /\ cfg = [mtp |-> "WebSocket", mqtt_url |-> FALSE]

\* tokio::time::sleep(RECONNECT_DELAY) returns: the loop that sleeps does
\* connect again
FrameSpec == FrameInit /\ [][FrameNext]_vars /\ WF_vars(WsReconnect)

\* ---------------------------------------------------------------------------
\* The handlers on their collaborators: one update set through the
\* dispatcher and a firmware Download() operated through it, on the device
\* as the steps before left it.  A step records the handler's result and the
\* calls it made, in order.
\* ---------------------------------------------------------------------------

CollabUpdates ==
    { <<P_Ssid1 \o <<"SSID">>, <<"guest-net">>>>,
      <<P_WiFi \o <<"AccessPoint", ".", "1", ".", "Security", ".", "KeyPassphrase">>, <<"hunter2">>>>,
      <<P_WiFi \o <<"AccessPoint", ".", "1", ".", "Security", ".", "ModeEnabled">>, <<"sae">>>>,
      <<P_WiFi \o <<"Radio", ".", "1", ".", "Channel">>, <<"6">>>>,
      <<P_WiFi \o <<"Radio", ".", "1", ".", "Bogus">>, <<"x">>>>,
      <<P_DeviceInfo \o <<"HostName">>, <<"ap-7">>>> }

FwUrl == <<"http://fw/img.bin">>
DownloadCommand == P_Firmware \o <<"Download()">>
DownloadArgs ==
    { EmptyMap,
      [k \in {<<"url">>} |-> <<>>],
      [k \in {<<"uri">>} |-> FwUrl],
      [k \in {<<"url">>} |-> FwUrl] }

CollabSet ==
    /\ \E u \in CollabUpdates : \E o \in set_params(dev, <<u>>) :
          /\ dev' = o.dev
          /\ last' = [mtp |-> "dm",
                      ev  |-> [kind |-> "set", path |-> u[1], value |-> u[2],
                               res |-> o.res, calls |-> o.calls]]
    /\ UNCHANGED <<cfg, tasks, gnss, session, pc, negotiated_ver, stored, sent, loopvars>>

CollabOperate ==
    /\ \E args \in DownloadArgs : \E o \in operate(dev, DownloadCommand, args) :
          /\ dev' = o.dev
          /\ last' = [mtp |-> "dm",
                      ev  |-> [kind |-> "operate", command |-> DownloadCommand,
                               input_args |-> args, res |-> o.res, calls |-> o.calls]]
    /\ UNCHANGED <<cfg, tasks, gnss, session, pc, negotiated_ver, stored, sent, loopvars>>

CollabNext ==
    \/ CollabSet
    \/ CollabOperate

CollabInit == Init /\ cfg = [mtp |-> "Mqtt", mqtt_url |-> TRUE]

CollabSpec == CollabInit /\ [][CollabNext]_vars

\* ---------------------------------------------------------------------------
\* The protobuf codec (prost, over the schemas of usp-record.proto and
\* usp-msg.proto).  An encoding is a sequence of entries, one per field that
\* is present: a field that holds its default value is left out, an optional
\* sub-message that is there is written even when it is empty, a repeated
\* field has one entry per element, a map one entry per pair in the order the
\* HashMap iterates, and a oneof is written under the number of its case.
\* Decoding starts from the default value of the type and merges the entries
\* in order; entries with an unknown number are skipped.
\* ---------------------------------------------------------------------------

Entry(num, val) == [num |-> num, val |-> val]

\* field descriptors
Scalar(name, num, dflt)     == [name |-> name, num |-> num, kind |-> "scalar", of |-> "", dflt |-> dflt]
Nested(name, num, type)     == [name |-> name, num |-> num, kind |-> "msg", of |-> type, dflt |-> None]
Repeated(name, num)         == [name |-> name, num |-> num, kind |-> "rep", of |-> "", dflt |-> <<>>]
RepeatedMsg(name, num, type) == [name |-> name, num |-> num, kind |-> "repmsg", of |-> type, dflt |-> <<>>]
MapField(name, num)         == [name |-> name, num |-> num, kind |-> "map", of |-> "", dflt |-> EmptyMap]
OneOf(name, cases)          == [name |-> name, num |-> 0, kind |-> "oneof", of |-> cases, dflt |-> None]
Case(tag, num)              == [tag |-> tag, num |-> num]

\* the fields of each message type, in the order they are written
Fields(T) ==
    CASE T = "Record" ->
            << Scalar("version", 1, <<>>), Scalar("to_id", 2, ""), Scalar("from_id", 3, ""),
               Scalar("payload_security", 4, "PLAINTEXT"),
               OneOf("record_type", << Case("NoSessionContext", 7), Case("SessionContext", 8),
                                       Case("WebsocketConnect", 9), Case("MqttConnect", 10),
                                       Case("Disconnect", 12) >>) >>
      [] T = "NoSessionContext" -> << Scalar("payload", 2, <<>>) >>
      [] T = "SessionContext" ->
            << Scalar("session_id", 1, 0), Scalar("sequence_id", 2, 0), Scalar("expected_id", 3, 0),
               Repeated("payload", 7) >>
      [] T = "WebsocketConnect" -> << >>
      [] T = "MqttConnect" ->
            << Scalar("version", 1, "V3_1_1"), Scalar("subscribed_topic", 2, <<>>) >>
      [] T = "Disconnect" -> << Scalar("reason", 1, <<>>), Scalar("reason_code", 2, 0) >>
      [] T = "Msg" -> << Nested("header", 1, "Header"), Nested("body", 2, "Body") >>
      [] T = "Header" -> << Scalar("msg_id", 1, ""), Scalar("msg_type", 2, "Error") >>
      [] T = "Body" ->
            << OneOf("msg_body", << Case("Request", 1), Case("Response", 2), Case("Error", 3) >>) >>
      [] T = "Request" ->
            << OneOf("req_type", << Case("Get", 1), Case("Set", 4), Case("Operate", 7),
                                    Case("Notify", 8), Case("GetSupportedProto", 9) >>) >>
      [] T = "Response" ->
            << OneOf("resp_type", << Case("GetResp", 1), Case("SetResp", 4), Case("OperateResp", 7),
                                     Case("NotifyResp", 8), Case("GetSupportedProtoResp", 9) >>) >>
      [] T = "Error" ->
            << Scalar("err_code", 1, 0), Scalar("err_msg", 2, <<>>),
               RepeatedMsg("param_errs", 3, "ParamError") >>
      [] T = "ParamError" ->
            << Scalar("param_path", 1, <<>>), Scalar("err_code", 2, 0), Scalar("err_msg", 3, <<>>) >>
      [] T = "Get" -> << Repeated("param_paths", 1), Scalar("max_depth", 2, 0) >>
      [] T = "Set" -> << RepeatedMsg("update_objs", 2, "UpdateObject") >>
      [] T = "UpdateObject" ->
            << Scalar("obj_path", 1, <<>>), RepeatedMsg("param_settings", 2, "UpdateParamSetting") >>
      [] T = "UpdateParamSetting" -> << Scalar("param", 1, <<>>), Scalar("value", 2, <<>>) >>
      [] T = "Operate" ->
            << Scalar("command", 1, <<>>), Scalar("command_key", 2, <<>>), MapField("input_args", 4) >>
      [] T = "Notify" ->
            << Scalar("subscription_id", 1, <<>>), Scalar("send_resp", 2, FALSE),
               OneOf("notification", << Case("Event", 3), Case("ValueChange", 4) >>) >>
      [] T = "Event" ->
            << Scalar("obj_path", 1, <<>>), Scalar("event_name", 2, <<>>), MapField("params", 3),
               Scalar("command_key", 4, <<>>) >>
      [] T = "ValueChange" -> << Scalar("param_path", 1, <<>>), Scalar("param_value", 2, <<>>) >>
      [] T = "GetSupportedProto" -> << Scalar("controller_supported_versions", 1, <<>>) >>
      [] T = "GetSupportedProtoResp" -> << Scalar("agent_supported_versions", 1, <<>>) >>
      [] T = "GetResp" -> << RepeatedMsg("req_path_results", 1, "RequestedPathResult") >>
      [] T = "RequestedPathResult" ->
            << Scalar("requested_path", 1, <<>>), Scalar("err_code", 2, 0), Scalar("err_msg", 3, <<>>),
               RepeatedMsg("resolved_path_results", 4, "ResolvedPathResult") >>
      [] T = "ResolvedPathResult" ->
            << Scalar("resolved_path", 1, <<>>), MapField("result_params", 2) >>
      [] T = "SetResp" -> << RepeatedMsg("updated_obj_results", 1, "UpdatedObjectResult") >>
      [] T = "UpdatedObjectResult" ->
            << Scalar("requested_path", 1, <<>>),
               OneOf("oper_status", << Case("OperFailure", 2), Case("OperSuccess", 3) >>) >>
      [] T = "OperFailure" ->
            << Scalar("err_code", 1, 0), Scalar("err_msg", 2, <<>>) >>
      [] T = "OperSuccess" -> << RepeatedMsg("updated_inst_results", 1, "UpdatedInstanceResult") >>
      [] T = "UpdatedInstanceResult" ->
            << Scalar("affected_path", 1, <<>>), RepeatedMsg("param_errs", 2, "ParamError"),
               MapField("updated_params", 3) >>
      [] T = "OperateResp" ->
            << Scalar("command_key", 1, <<>>), RepeatedMsg("operation_results", 2, "OperationResult") >>
      [] T = "OperationResult" ->
            << Scalar("executed_command", 1, <<>>),
               OneOf("operate_resp_type", << Case("ReqOutputArgs", 3), Case("CmdFailure", 4) >>) >>
      [] T = "ReqOutputArgs" -> << MapField("output_args", 1) >>
      [] T = "CmdFailure" -> << Scalar("err_code", 1, 0), Scalar("err_msg", 2, <<>>) >>
      [] T = "NotifyResp" -> << Scalar("subscription_id", 1, <<>>) >>

\* one pair of a map: the key under 1 and the value under 2, an empty one
\* left out
MapEntry(k, val) ==
    (IF k = <<>> THEN <<>> ELSE <<Entry(1, k)>>) \o (IF val = <<>> THEN <<>> ELSE <<Entry(2, val)>>)

\* every concatenation of an encoding of A with one of B
Cat(A, B) == { a \o b : a \in A, b \in B }

RECURSIVE prost_encode(_, _)
RECURSIVE EncodeField(_, _)
RECURSIVE EncodeFields(_, _, _)
RECURSIVE EncodeEach(_, _, _)
RECURSIVE EncodeField_skip_empty(_, _)

\* the elements 1..n of a repeated sub-message field
EncodeEach(f, xs, n) ==
    IF n = 0 THEN {<<>>}
    ELSE Cat(EncodeEach(f, xs, n - 1), { <<Entry(f.num, w)>> : w \in prost_encode(f.of, xs[n]) })

\* an encoder that leaves out a sub-message that has nothing in it
EncodeField_skip_empty(f, v) ==
    LET x == v[f.name]
        keep(num, ws) == { IF w = <<>> THEN <<>> ELSE <<Entry(num, w)>> : w \in ws }
    IN CASE f.kind = "scalar" -> IF x = f.dflt THEN {<<>>} ELSE {<<Entry(f.num, x)>>}
         [] f.kind = "msg" ->
              IF x.some THEN keep(f.num, prost_encode(f.of, x.val)) ELSE {<<>>}
         [] f.kind = "rep" -> { [i \in 1..Len(x) |-> Entry(f.num, x[i])] }
         [] f.kind = "repmsg" -> EncodeEach(f, x, Len(x))
         [] f.kind = "map" ->
              { [i \in 1..Len(o) |-> Entry(f.num, MapEntry(o[i], x[o[i]]))] : o \in Orders(DOMAIN x) }
         [] f.kind = "oneof" ->
              IF x.some
              THEN LET c == f.of[CHOOSE j \in 1..Len(f.of) : f.of[j].tag = x.val.tag]
                   IN keep(c.num, prost_encode(c.tag, x.val))
              ELSE {<<>>}

\* the encodings of field f of the message v
EncodeField(f, v) ==
    LET x == v[f.name]
    IN CASE f.kind = "scalar" -> IF x = f.dflt THEN {<<>>} ELSE {<<Entry(f.num, x)>>}
         [] f.kind = "msg" ->
              IF x.some THEN { <<Entry(f.num, w)>> : w \in prost_encode(f.of, x.val) } ELSE {<<>>}
         [] f.kind = "rep" -> { [i \in 1..Len(x) |-> Entry(f.num, x[i])] }
         [] f.kind = "repmsg" -> EncodeEach(f, x, Len(x))
         [] f.kind = "map" ->
              { [i \in 1..Len(o) |-> Entry(f.num, MapEntry(o[i], x[o[i]]))] : o \in Orders(DOMAIN x) }
         [] f.kind = "oneof" ->
              IF x.some
              THEN LET c == f.of[CHOOSE j \in 1..Len(f.of) : f.of[j].tag = x.val.tag]
                   IN { <<Entry(c.num, w)>> : w \in prost_encode(c.tag, x.val) }
              ELSE {<<>>}

\* the first n fields of the message v of type T
EncodeFields(T, v, n) ==
    IF n = 0 THEN {<<>>}
    ELSE Cat(EncodeFields(T, v, n - 1), EncodeField(Fields(T)[n], v))

\* Message::encode: every encoding of the message v of type T (one per
\* iteration order of its maps)
prost_encode(T, v) == EncodeFields(T, v, Len(Fields(T)))

\* the message of type T with every field at its default
DefaultOf(T) ==
    [n \in { Fields(T)[i].name : i \in 1..Len(Fields(T)) } |->
        Fields(T)[CHOOSE i \in 1..Len(Fields(T)) : Fields(T)[i].name = n].dflt]

\* a oneof variant: the case's name with the fields of its message
Tagged(tag, rec) == [n \in (DOMAIN rec) \cup {"tag"} |-> IF n = "tag" THEN tag ELSE rec[n]]

\* the entry under num of a decoded map pair, or the empty text
PairPart(w, num) ==
    IF \E i \in 1..Len(w) : w[i].num = num
    THEN w[CHOOSE i \in 1..Len(w) : w[i].num = num /\ \A j \in (i + 1)..Len(w) : w[j].num # num].val
    ELSE <<>>

RECURSIVE prost_merge(_, _, _)
RECURSIVE MergeEntry(_, _, _)

\* one entry merged into the message v of type T
MergeEntry(T, v, e) ==
    LET fs    == Fields(T)
        plain == { i \in 1..Len(fs) : fs[i].kind # "oneof" /\ fs[i].num = e.num }
        cases == UNION { IF fs[i].kind = "oneof"
                         THEN { <<i, j>> : j \in { j \in 1..Len(fs[i].of) : fs[i].of[j].num = e.num } }
                         ELSE {} : i \in 1..Len(fs) }
    IN IF plain # {}
       THEN LET f == fs[CHOOSE i \in plain : TRUE]
            IN CASE f.kind = "scalar" -> [v EXCEPT ![f.name] = e.val]
                 [] f.kind = "msg" ->
                      [v EXCEPT ![f.name] =
                          Some(prost_merge(f.of, IF @.some THEN @.val ELSE DefaultOf(f.of), e.val))]
                 [] f.kind = "rep" -> [v EXCEPT ![f.name] = Append(@, e.val)]
                 [] f.kind = "repmsg" ->
                      [v EXCEPT ![f.name] = Append(@, prost_merge(f.of, DefaultOf(f.of), e.val))]
                 [] f.kind = "map" ->
                      [v EXCEPT ![f.name] =
                          Extend(@, [k \in {PairPart(e.val, 1)} |-> PairPart(e.val, 2)])]
       ELSE IF cases # {}
       THEN LET ij == CHOOSE c \in cases : TRUE
                f  == fs[ij[1]]
                c  == f.of[ij[2]]
            IN [v EXCEPT ![f.name] = Some(Tagged(c.tag, prost_merge(c.tag, DefaultOf(c.tag), e.val)))]
       ELSE v

\* the entries of w merged into v, in order
prost_merge(T, v, w) ==
    IF w = <<>> THEN v ELSE prost_merge(T, MergeEntry(T, v, Head(w)), Tail(w))

\* Message::decode
prost_decode(T, w) == prost_merge(T, DefaultOf(T), w)

\* ---------------------------------------------------------------------------
\* The codec on what the agent builds: a step encodes one Record or Msg the
\* builders make and decodes the bytes again
\* ---------------------------------------------------------------------------

CodecTexts == { <<>>, <<"sub-1">> }
CodecParams ==
    { EmptyMap,
      [k \in {<<"status">>} |-> <<"applied">>],
      [k \in {<<"image_size">>, <<"camera_ip">>} |-> IF k = <<"image_size">> THEN <<"20480">> ELSE <<>>],
      device_info_get(P_DeviceInfo \o <<"HostName">>),
      wifi_get(InitDev, P_WiFi) }

CodecMsgs ==
    { build_boot_notify(u, t, b, m) : u \in Uuids, t \in CodecTexts, b \in BOOLEAN, m \in CodecParams }
    \cup { build_value_change_notify(u, t, p, x) :
              u \in Uuids, t \in CodecTexts, p \in {P_DeviceInfo \o <<"UpTime">>}, x \in {<<>>, UpTimeText} }
    \cup { build_get_supported_proto(u) : u \in Uuids }
    \cup UNION { { build_get_resp("m1", m, o).val : o \in Orders(DOMAIN m) } : m \in CodecParams }
    \cup { build_set_resp(id, ps) : id \in {"m1", ""}, ps \in {<<>>, <<P_Ssid1>>, <<P_Ssid1, P_Security>>} }
    \cup { build_operate_resp("m2", P_Firmware \o <<"Download()">>, t, m) : t \in CodecTexts, m \in CodecParams }
    \cup { build_notify_resp(id, t) : id \in {"m1", ""}, t \in CodecTexts }
    \cup { build_error(id, code, t) : id \in {"m1", ""}, code \in {0, 7000, 7800}, t \in {<<>>, <<"REQUEST_DENIED">>} }

\* Msg bytes a Record carries: none, and encodings of two replies
CodecPayloads ==
    {<<>>} \cup prost_encode("Msg", build_error("m1", 7004, <<"INVALID_ARGUMENTS">>))
           \cup prost_encode("Msg", build_set_resp("m2", <<P_Ssid1>>))

CodecRecords ==
    { no_session_record(AgentId, to, b, ver) : to \in {ControllerId, ""}, b \in CodecPayloads, ver \in {V13, V14, <<>>} }
    \cup { websocket_connect_record(AgentId, to) : to \in {ControllerId, ""} }
    \cup { mqtt_connect_record(AgentId, to, topic) :
              to \in {ControllerId, ""}, topic \in {<<>>, <<"usp/v1/agent/x">>} }
    \cup { disconnect_record(AgentId, to, reason) : to \in {ControllerId, ""}, reason \in {<<>>, <<"bye">>} }

CodecRecord ==
    /\ \E x \in CodecRecords : \E w \in prost_encode("Record", x) :
          last' = [mtp |-> "codec",
                   ev  |-> [kind |-> "Record", x |-> x, bytes |-> w, back |-> prost_decode("Record", w)]]
    /\ UNCHANGED <<cfg, tasks, gnss, session, pc, negotiated_ver, stored, dev, sent, loopvars>>

CodecMsg ==
    /\ \E x \in CodecMsgs : \E w \in prost_encode("Msg", x) :
          last' = [mtp |-> "codec",
                   ev  |-> [kind |-> "Msg", x |-> x, bytes |-> w, back |-> prost_decode("Msg", w)]]
    /\ UNCHANGED <<cfg, tasks, gnss, session, pc, negotiated_ver, stored, dev, sent, loopvars>>

CodecNext ==
    \/ CodecRecord
    \/ CodecMsg

CodecSpec == CollabInit /\ [][CodecNext]_vars


\* ---------------------------------------------------------------------------
\* The session context driven by its owner: new, then any interleaving of
\* next_sequence_id, advance_expected and retransmit
\* ---------------------------------------------------------------------------

\* calls of next_sequence_id in a run
MaxCalls == 258
\* calls of advance_expected in a run
MaxAdvance == 2
\* the first calls of next_sequence_id, where the caller passes either payload
MaxVaried == 2

SessionIds == {0, 7}

\* the record bytes the caller passes on the call that allocates sequence n:
\* neighbouring records differ, and the first few calls may carry another one
PayloadsAt(n) ==
    {[enc |-> "record", body |-> n % 3]}
    \cup (IF n <= MaxVaried THEN {[enc |-> "record", body |-> 9]} ELSE {})

\* the ids a peer may ask to be sent again: none (0), the oldest and newest
\* kept, their neighbours, and a middle one
Probes(ctx) ==
    {0, 1, 2, ctx.next_seq - 1, ctx.next_seq, ctx.next_seq + 1}
    \cup {n \in {ctx.next_seq - RetransmitCap - 1, ctx.next_seq - RetransmitCap} : n >= 0}

SessNew ==
    /\ ~session.some
    /\ \E id \in SessionIds :
          /\ session' = Some(session_new(id))
          /\ last' = [mtp |-> "session", ev |-> [kind |-> "new", session_id |-> id]]
    /\ UNCHANGED <<cfg, tasks, gnss, pc, negotiated_ver, stored, dev, sent, loopvars>>

SessNextSequenceId ==
    /\ session.some
    /\ session.val.next_seq <= MaxCalls
    /\ \E payload \in PayloadsAt(session.val.next_seq) :
          LET r == next_sequence_id(session.val, payload)
          IN /\ session' = Some(r.ctx)
             /\ last' = [mtp |-> "session",
                         ev |-> [kind |-> "next_sequence_id", payload |-> payload, ret |-> r.ret]]
    /\ UNCHANGED <<cfg, tasks, gnss, pc, negotiated_ver, stored, dev, sent, loopvars>>

SessAdvanceExpected ==
    /\ session.some
    /\ session.val.expected_id <= MaxAdvance
    /\ session' = Some(advance_expected(session.val))
    /\ last' = [mtp |-> "session", ev |-> [kind |-> "advance_expected"]]
    /\ UNCHANGED <<cfg, tasks, gnss, pc, negotiated_ver, stored, dev, sent, loopvars>>

SessRetransmit ==
    /\ session.some
    /\ \E seq_id \in Probes(session.val) :
          last' = [mtp |-> "session",
                   ev |-> [kind |-> "retransmit", seq_id |-> seq_id,
                           ret |-> retransmit(session.val, seq_id)]]
    /\ UNCHANGED <<cfg, tasks, gnss, pc, negotiated_ver, stored, dev, sent, loopvars, session>>

SessionNext ==
    \/ SessNew
    \/ SessNextSequenceId
    \/ SessAdvanceExpected
    \/ SessRetransmit

\* session framing is used on the MQTT MTP only
SessionInit == Init /\ cfg = [mtp |-> "Mqtt", mqtt_url |-> TRUE]

SessionSpec == SessionInit /\ [][SessionNext]_vars



\* ---------------------------------------------------------------------------
\* Vocabulary of the properties
\* ---------------------------------------------------------------------------

\* the last step served an inbound frame / publish that decodes to a Record
ServedRecord ==
    /\ last.mtp \in MTPs
    /\ last.ev.kind \in {"Binary", "Publish"}
    /\ last.ev.data.enc = "Record"

InRec == last.ev.data.rec

\* ... whose to_id names another endpoint
Misaddressed == ServedRecord /\ InRec.to_id # "" /\ InRec.to_id # AgentId

\* ... which is addressed to the agent and carries a decodable Msg with a header
ServedMsg ==
    /\ ServedRecord
    /\ InRec.to_id = AgentId
    /\ InRec.record_type.some
    /\ \/ /\ InRec.record_type.val.tag = "NoSessionContext"
          /\ InRec.record_type.val.payload.enc = "Msg"
       \/ /\ InRec.record_type.val.tag = "SessionContext"
          /\ InRec.record_type.val.payload # <<>>
          /\ InRec.record_type.val.payload[1].enc = "Msg"
    /\ (IF InRec.record_type.val.tag = "NoSessionContext"
        THEN InRec.record_type.val.payload.msg
        ELSE InRec.record_type.val.payload[1].msg).header.some

InMsg ==
    IF InRec.record_type.val.tag = "NoSessionContext"
    THEN InRec.record_type.val.payload.msg
    ELSE InRec.record_type.val.payload[1].msg

InType == InMsg.header.val.msg_type
InId   == InMsg.header.val.msg_id

\* the Records the last step handed to the transport
SentRecords ==
    LET idx == {i \in 1..Len(sent) : sent[i].kind # "Pong"}
    IN {sent[i].data.rec : i \in idx}

\* the Msg a sent Record carries
IsMsgRecord(r) == r.record_type.some /\ r.record_type.val.tag = "NoSessionContext"
MsgOf(r) == r.record_type.val.payload.msg

ReplyTypes ==
    {"GetResp", "SetResp", "OperateResp", "AddResp", "DeleteResp", "GetSupportedDmResp",
     "GetInstancesResp", "Error"}


\* ---------------------------------------------------------------------------
\* C1 - addressing
\* ---------------------------------------------------------------------------

\* C1: on both MTPs, a step that serves a Record whose to_id is non-empty and
\* is not the agent's endpoint id sends no frame, leaves the negotiated
\* version (and whether it was stored) and the device as they were, and
\* leaves the connection serving.
C1_MisaddressedDiscarded ==
    [][ Misaddressed' =>
          /\ sent' = <<>>
          /\ negotiated_ver' = negotiated_ver
          /\ stored' = stored
          /\ dev' = dev
          /\ pc' = pc
          /\ pc'[last'.mtp] = "serve" ]_vars

\* a Record addressed to another endpoint and carrying a GetSupportedProtoResp
\* was served on MQTT: nothing was sent and the loop still serves
C1_Witness ==
    /\ Misaddressed
    /\ InRec.record_type.val.payload.msg.header.val.msg_type = "GetSupportedProtoResp"
    /\ last.mtp = "mqtt"
    /\ pc["mqtt"] = "serve"
    /\ sent = <<>>

\* ---------------------------------------------------------------------------
\* C2 - one reply per request
\* ---------------------------------------------------------------------------

RequestTypes == {"Get", "Set", "Operate", "Add", "Delete", "GetInstances", "GetSupportedDm"}

\* C2: a served Msg whose header type is a request type is answered with
\* exactly one Record, carrying a Response or an Error; a NotifyResp is
\* answered with nothing.  (As claimed: whatever the body contains.)
C2_OneReplyPerRequest ==
    ServedMsg =>
       /\ InType \in RequestTypes =>
             /\ Len(sent) = 1
             /\ \A r \in SentRecords : IsMsgRecord(r) /\ MsgOf(r).header.val.msg_type \in ReplyTypes
       /\ InType = "NotifyResp" => sent = <<>>

\* ---------------------------------------------------------------------------
\* C3 - msg_id echo
\* ---------------------------------------------------------------------------

\* C3: every Response or Error sent in answer to a served Msg carries the
\* msg_id of that Msg.
C3_ReplyEchoesMsgId ==
    ServedMsg =>
       \A r \in SentRecords :
          (IsMsgRecord(r) /\ MsgOf(r).header.val.msg_type \in ReplyTypes)
             => MsgOf(r).header.val.msg_id = InId

\* a failed Set (read-only path) with msg_id "m2" was answered with an Error
C3_Witness ==
    /\ ServedMsg
    /\ InType = "Set"
    /\ InId = "m2"
    /\ \E r \in SentRecords :
          /\ MsgOf(r).header.val.msg_type = "Error"
          /\ MsgOf(r).body.val.msg_body.val.err_code = 7200
          /\ MsgOf(r).header.val.msg_id = "m2"

\* ---------------------------------------------------------------------------
\* C4 - from_id
\* ---------------------------------------------------------------------------

\* C4: every Record sent, on either MTP, has from_id = the agent's endpoint id.
C4_FromIdIsAgent == \A r \in SentRecords : r.from_id = AgentId

\* a response Record was published on MQTT in answer to a Record whose
\* from_id is the controller
C4_Witness ==
    /\ ServedMsg
    /\ last.mtp = "mqtt"
    /\ InRec.from_id = ControllerId
    /\ \E r \in SentRecords : IsMsgRecord(r) /\ r.to_id = ControllerId /\ r.from_id = AgentId

\* ---------------------------------------------------------------------------
\* C5 - to_id
\* ---------------------------------------------------------------------------

\* C5: every Record sent has a non-empty to_id.
C5_ToIdNonEmpty == \A r \in SentRecords : r.to_id # ""


\* ---------------------------------------------------------------------------
\* C6 - version stamped on outbound Records
\* ---------------------------------------------------------------------------

C7_NeverBackToInitial ==
    [][ \A m \in MTPs :
          (stored[m] /\ negotiated_ver[m] # V13) => negotiated_ver'[m] # V13 ]_vars

\* C7 amended: once a version was stored from a GetSupportedProtoResp, the
\* cell stays stored and only a later GetSupportedProtoResp served on the same
\* MTP changes its value (to that response's first listed version, which may
\* be "1.3" again); no other inbound message and no reconnect changes it.
C7_OnlyProtoRespChangesVersion ==
    [][ \A m \in MTPs :
          /\ stored[m] => stored'[m]
          /\ negotiated_ver'[m] # negotiated_ver[m] =>
                /\ last'.mtp = m
                /\ ServedRecord'
                /\ InRec'.to_id \in {"", AgentId}
                /\ InRec'.record_type.val.payload.msg.header.val.msg_type = "GetSupportedProtoResp" ]_vars

\* the WebSocket MTP reconnects with "1.4" stored
C7_Witness ==
    /\ last = [mtp |-> "ws", ev |-> [kind |-> "reconnect"]]
    /\ stored["ws"]
    /\ negotiated_ver["ws"] = V14

\* ---------------------------------------------------------------------------
\* C8 - GetSupportedProtoResp: version, then Boot!
\* ---------------------------------------------------------------------------

Blank(c) == c = " " \/ c = "\t"

\* r is the text before the first comma of `list`, without the blanks around it
IsFirstVersionOf(r, list) ==
    \E k \in 1..(Len(list) + 1) :
       /\ k = Len(list) + 1 \/ list[k] = ","
       /\ \A i \in 1..(k - 1) : list[i] # ","
       /\ \E a \in 1..k, b \in 0..(k - 1) :
             /\ r = SubSeq(list, a, b)
             /\ \A i \in 1..(a - 1) : Blank(list[i])
             /\ \A i \in (b + 1)..(k - 1) : Blank(list[i])
             /\ r # <<>> => ~Blank(r[1]) /\ ~Blank(r[Len(r)])

InProtoResp ==
    /\ ServedMsg
    /\ InType = "GetSupportedProtoResp"
    /\ InMsg.body.some
    /\ InMsg.body.val.msg_body.some
    /\ InMsg.body.val.msg_body.val.tag = "Response"
    /\ InMsg.body.val.msg_body.val.resp_type.val.tag = "GetSupportedProtoResp"

InVersions == InMsg.body.val.msg_body.val.resp_type.val.agent_supported_versions

IsBootNotify(msg) ==
    /\ msg.header.val.msg_type = "Notify"
    /\ LET n == msg.body.val.msg_body.val.req_type.val.notification.val
       IN /\ n.tag = "Event"
          /\ n.event_name = <<"Boot!">>
          /\ n.obj_path = <<"Device", ".">>
          /\ <<"Cause">> \in DOMAIN n.params
          /\ n.params[<<"Cause">>] = <<"LocalReboot">>
          /\ <<"FirmwareUpdated">> \in DOMAIN n.params
          /\ n.params[<<"FirmwareUpdated">>] = <<"false">>

\* C8: after a GetSupportedProtoResp listing v1, v2, ... was served, the cell
\* of that MTP holds v1 without the blanks around it, and the one Record the
\* step sent carries a Boot! Notify (obj_path "Device.", Cause "LocalReboot",
\* FirmwareUpdated "false") and is stamped with the new version.
C8_ProtoRespThenBoot ==
    InProtoResp =>
       /\ IsFirstVersionOf(negotiated_ver[last.mtp], InVersions)
       /\ Len(sent) = 1
       /\ \A r \in SentRecords :
             /\ IsMsgRecord(r)
             /\ IsBootNotify(MsgOf(r))
             /\ r.version = negotiated_ver[last.mtp]

\* " 1.4<tab>,1.3" was served: the cell holds "1.4" and the Boot! Record is
\* stamped "1.4"
C8_Witness ==
    /\ InProtoResp
    /\ InVersions = <<" ", "1", ".", "4", "\t", ",", "1", ".", "3">>
    /\ negotiated_ver[last.mtp] = V14
    /\ \E r \in SentRecords : IsBootNotify(MsgOf(r)) /\ r.version = V14

\* ---------------------------------------------------------------------------
\* C9 - one version for the process
\* ---------------------------------------------------------------------------

\* C9: with both MTPs selected a response Record carries the one negotiated
\* version of the process: the value of the cell of either MTP.
C9_OneVersionForBothMtps ==
    (cfg.mtp = "Both" /\ last.mtp \in MTPs /\ last.ev.kind \in {"Binary", "Publish"}) =>
       \A r \in SentRecords : \A m \in MTPs : r.version = negotiated_ver[m]

\* ---------------------------------------------------------------------------
\* C10 - opening of a connection
\* ---------------------------------------------------------------------------

IsConnectRecord(r) ==
    r.record_type.some /\ r.record_type.val.tag \in {"WebsocketConnect", "MqttConnect"}

IsProtoRequest(r) ==
    IsMsgRecord(r) /\ MsgOf(r).header.val.msg_type = "GetSupportedProto"

\* C10: on either MTP, when a connection attempt succeeded and the loop is
\* about to serve inbound frames, the agent has sent its connect Record and
\* then a GetSupportedProto request in a NoSessionContext Record.
C10_ConnectThenProtoRequest ==
    \A m \in MTPs :
       (last.mtp = m /\ last.ev.kind = "connect" /\ pc[m] = "serve") =>
          /\ Len(sent) = 2
          /\ sent[1].ok /\ IsConnectRecord(sent[1].data.rec)
          /\ sent[2].ok /\ IsProtoRequest(sent[2].data.rec)


\* ---------------------------------------------------------------------------
\* C11 - frames in arrival order, reply before the next frame
\* ---------------------------------------------------------------------------

\* C11: on each MTP the loop takes the frames in arrival order (the frame
\* taken is the oldest one waiting), it takes a frame only when the reply to
\* the frame before has been handed to the transport, and the replies leave
\* in the order of the frames they answer (each reply answers the frame
\* taken last, later than the one answered before).
C11_InOrderReplyBeforeNext ==
    [][ \A m \in MTPs :
          /\ (pc'[m] = "serve" /\ ticket'[m].taken # ticket[m].taken) =>
                /\ inbox[m] # <<>>
                /\ ticket'[m].taken = inbox[m][1].n
                /\ \A i \in 2..Len(inbox[m]) : inbox[m][i].n > inbox[m][1].n
                /\ inbox'[m] = Tail(inbox[m])
                /\ ~handling[m].some
          /\ (pc'[m] = "serve" /\ ticket'[m].replied # ticket[m].replied) =>
                /\ ticket'[m].replied = ticket[m].taken
                /\ ticket'[m].replied > ticket[m].replied
                /\ sent' # <<>> ]_vars

\* the reply to the second frame of a WebSocket connection has left after the
\* reply to the first, while a third frame was waiting
C11_Witness ==
    /\ last = [mtp |-> "ws", ev |-> [kind |-> "send"]]
    /\ ticket["ws"].replied = 2
    /\ ticket["ws"].arrived = 3
    /\ Len(inbox["ws"]) = 1
    /\ sent # <<>>
    /\ sent[1].kind = "Binary"


\* ---------------------------------------------------------------------------
\* C12 - reconnect after every disconnect
\* ---------------------------------------------------------------------------

\* the last step was a connection attempt of MTP m that failed, or the end of
\* its connection: a Close frame, the end of the stream, an I/O error or (on
\* the WebSocket) a send that failed
ConnectionOver(m) ==
    /\ last.mtp = m
    /\ \/ last.ev.kind \in {"Close", "End", "IoError"}
       \/ last.ev.kind = "connect" /\ (sent = <<>> \/ ~sent[Len(sent)].ok)
       \/ m = "ws" /\ last.ev.kind = "send" /\ \E i \in 1..Len(sent) : ~sent[i].ok

\* C12: on each MTP, whenever a connection attempt fails or a connection ends
\* the loop is in its reconnect sleep, and (the sleep being finite and the
\* task being scheduled) a loop in its sleep always goes on to a new
\* connection attempt: there is no retry limit.
C12_ReconnectFollowsDisconnect ==
    \A m \in MTPs :
       /\ [](ConnectionOver(m) => pc[m] = "sleep")
       /\ (pc[m] = "sleep") ~> (pc[m] = "connect" /\ last = [mtp |-> m, ev |-> [kind |-> "reconnect"]])

\* the MQTT loop is about to connect again while the WebSocket loop, whose
\* connection is over too, still sleeps
C12_Witness ==
    /\ last = [mtp |-> "mqtt", ev |-> [kind |-> "reconnect"]]
    /\ pc["mqtt"] = "connect"
    /\ cfg.mtp = "Both"
    /\ pc["ws"] = "sleep"

\* ---------------------------------------------------------------------------
\* C13 - the supervisor restarts an MTP task that exited
\* ---------------------------------------------------------------------------

\* C13: in every MTP selection, when an MTP task has exited the supervisor's
\* restart is due (it is waiting for exactly that) and starts that task again.
C13_ExitedTaskRestarted ==
    \A m \in MTPs : pc[m] = "done" => ENABLED (AgentRestart /\ pc'[m] = "connect")


\* ---------------------------------------------------------------------------
\* C14 - frames that do not decode
\* ---------------------------------------------------------------------------

\* the last step served bytes that are no Record, or a Record for the agent
\* whose payload is no Msg
Undecodable ==
    /\ last.mtp \in MTPs
    /\ last.ev.kind \in {"Binary", "Publish"}
    /\ \/ last.ev.data.enc # "Record"
       \/ /\ InRec.to_id \in {"", AgentId}
          /\ InRec.record_type.some
          /\ \/ /\ InRec.record_type.val.tag = "NoSessionContext"
                /\ InRec.record_type.val.payload.enc # "Msg"
             \/ /\ InRec.record_type.val.tag = "SessionContext"
                /\ InRec.record_type.val.payload # <<>>
                /\ InRec.record_type.val.payload[1].enc # "Msg"

\* C14: a step that serves a frame whose Record or whose inner Msg does not
\* decode sends nothing, leaves the negotiated versions and the device
\* unchanged, and leaves the loop serving the connection.
C14_UndecodableDropped ==
    [][ Undecodable' =>
          /\ sent' = <<>>
          /\ negotiated_ver' = negotiated_ver
          /\ stored' = stored
          /\ dev' = dev
          /\ pc' = pc
          /\ pc'[last'.mtp] = "serve" ]_vars

\* a Record for the agent whose payload is no Msg was served on the WebSocket
\* after "1.4" had been negotiated there: nothing was sent, "1.4" stays
C14_Witness ==
    /\ Undecodable
    /\ last.mtp = "ws"
    /\ last.ev.data.enc = "Record"
    /\ InRec.record_type.val.tag = "NoSessionContext"
    /\ negotiated_ver["ws"] = V14
    /\ sent = <<>>
    /\ pc["ws"] = "serve"


\* ---------------------------------------------------------------------------
\* C15, C16 - messages the agent does not serve
\* ---------------------------------------------------------------------------

\* the last step sent exactly one Record, an Error with this code and text
AnsweredWithError(code, text) ==
    /\ Len(sent) = 1
    /\ \A r \in SentRecords :
          /\ IsMsgRecord(r)
          /\ MsgOf(r).header.some
          /\ MsgOf(r).header.val.msg_type = "Error"
          /\ MsgOf(r).body.some
          /\ MsgOf(r).body.val.msg_body.some
          /\ MsgOf(r).body.val.msg_body.val.tag = "Error"
          /\ MsgOf(r).body.val.msg_body.val.err_code = code
          /\ MsgOf(r).body.val.msg_body.val.err_msg = text

UnsupportedTypes == {"Add", "Delete", "GetInstances", "GetSupportedDm"}

\* C15: a served Msg whose header type is Add, Delete, GetInstances or
\* GetSupportedDm is answered with one Error 7004 "NOT_SUPPORTED", also when
\* the Msg carries a header and nothing else.
C15_UnsupportedAnswered7004 ==
    (ServedMsg /\ InType \in UnsupportedTypes) => AnsweredWithError(7004, <<"NOT_SUPPORTED">>)

HandledTypes ==
    {"Get", "Set", "Operate", "NotifyResp", "GetSupportedProtoResp"} \cup UnsupportedTypes

\* C16: a served Msg whose header type is none of Get, Set, Operate,
\* NotifyResp, GetSupportedProtoResp, Add, Delete, GetInstances,
\* GetSupportedDm (values outside the MessageType enum included) is answered
\* with one Error 7000 "MESSAGE_NOT_UNDERSTOOD".
C16_UnknownAnswered7000 ==
    (ServedMsg /\ InType \notin HandledTypes) =>
        AnsweredWithError(7000, <<"MESSAGE_NOT_UNDERSTOOD">>)


\* ---------------------------------------------------------------------------
\* C17..C20 - Set and Operate
\* ---------------------------------------------------------------------------

\* the last step served a Set / an Operate that carries a body
SetServed     == ServedMsg /\ InType = "Set" /\ InMsg.body.some
OperateServed == ServedMsg /\ InType = "Operate" /\ InMsg.body.some

\* the Msg of the only frame the last step sent, and its Error or Response
Reply      == MsgOf(sent[1].data.rec)
ReplyInner == Reply.body.val.msg_body.val

ReplyIsError(code, text) ==
    /\ Reply.header.val.msg_type = "Error"
    /\ ReplyInner.tag = "Error"
    /\ ReplyInner.err_code = code
    /\ ReplyInner.err_msg = text

\* the update_objs of the served Set, as the controller wrote them
RequestedObjs ==
    IF ReqOf(InMsg.body.val, "Set").some
    THEN ReqOf(InMsg.body.val, "Set").val.update_objs ELSE <<>>

\* the reply is a SetResp with one OperSuccess result per requested object,
\* in the order of the request
ReplyIsSetRespFor(objs) ==
    /\ Reply.header.val.msg_type = "SetResp"
    /\ ReplyInner.tag = "Response"
    /\ ReplyInner.resp_type.some
    /\ ReplyInner.resp_type.val.tag = "SetResp"
    /\ Len(ReplyInner.resp_type.val.updated_obj_results) = Len(objs)
    /\ \A i \in 1..Len(objs) :
          /\ ReplyInner.resp_type.val.updated_obj_results[i].requested_path = objs[i].obj_path
          /\ ReplyInner.resp_type.val.updated_obj_results[i].oper_status =
                Some([tag |-> "OperSuccess", updated_inst_results |-> <<>>])

\* C17: a step that serves a Set sends exactly one Record; for the result the
\* dispatcher's set gave on the device as it was, the device is the one set
\* left, and the reply is, on success, a SetResp with exactly one result per
\* update_objs entry, in request order, with the entry's obj_path and
\* OperSuccess with no instance results, and on failure an Error 7200 whose
\* err_msg is the failure reason.
C17_SetReply ==
    [][ SetServed' =>
          /\ Len(sent') = 1
          /\ IsMsgRecord(sent'[1].data.rec)
          /\ \E o \in set_params(dev, extract_set_updates(InMsg'.body.val)) :
                /\ dev' = o.dev
                /\ o.res.ok  => ReplyIsSetRespFor(RequestedObjs)'
                /\ ~o.res.ok => ReplyIsError(7200, o.res.err)' ]_vars

\* a Set of two objects was served and answered by a SetResp naming both, in
\* the order of the request
C17_Witness ==
    /\ SetServed
    /\ Len(RequestedObjs) = 2
    /\ Len(sent) = 1
    /\ ReplyIsSetRespFor(RequestedObjs)
    /\ ReplyInner.resp_type.val.updated_obj_results[2].requested_path = P_Security

\* paths no handler can set: read-only, not implemented, or not a parameter
\* the handler of the subtree knows
WiFiParams == {"SSID", "KeyPassphrase", "ModeEnabled", "Channel"}
IPParams   == {"IPAddress", "SubnetMask", "AddressingType"}
Satisfiable(path) ==
    /\ Len(path) >= 2
    /\ path[Len(path) - 1] = "."
    /\ \/ StartsWith(path, P_WiFi) /\ path[Len(path)] \in WiFiParams
       \/ StartsWith(path, P_IPInterface) /\ path[Len(path)] \in IPParams

\* C18: a served Set with an update the implementation cannot satisfy (a
\* read-only path, a subtree that is not implemented, a parameter the routed
\* handler does not know) is answered with an Error, never with a SetResp.
C18_UnsatisfiableSetFails ==
    (SetServed /\ \E i \in 1..Len(extract_set_updates(InMsg.body.val)) :
                     ~Satisfiable(extract_set_updates(InMsg.body.val)[i][1]))
       => /\ Len(sent) = 1
          /\ Reply.header.val.msg_type = "Error"

\* the runs of the handlers over the first n updates, in request order, each
\* on the device the one before left
RECURSIVE Chains(_, _, _)
Chains(d, updates, n) ==
    IF n = 0 THEN {<<>>}
    ELSE UNION { { Append(c, o) :
                      o \in dispatch_set(IF n = 1 THEN d ELSE c[n - 1].dev,
                                         updates[n][1], updates[n][2]) } :
                 c \in Chains(d, updates, n - 1) }

\* C19: a step that serves a Set ran the handlers over a prefix of the
\* updates, in request order: either all of them succeeded and the reply is
\* the SetResp, or the last one run failed, the ones before it succeeded, its
\* reason is the reply's err_msg unchanged, and the device is as that run
\* left it: what the earlier updates wrote is kept and no later update ran.
C19_StopsAtFirstFailure ==
    [][ SetServed' =>
          \E updates \in {extract_set_updates(InMsg'.body.val)} :
             /\ Len(sent') = 1
             /\ \E n \in 0..Len(updates) : \E c \in Chains(dev, updates, n) :
                   /\ \A i \in 1..(n - 1) : c[i].res.ok
                   /\ dev' = (IF n = 0 THEN dev ELSE c[n].dev)
                   /\ \/ /\ n = Len(updates)
                         /\ n > 0 => c[n].res.ok
                         /\ Reply'.header.val.msg_type = "SetResp"
                      \/ /\ n > 0
                         /\ ~c[n].res.ok
                         /\ ReplyIsError(7200, c[n].res.err)' ]_vars

\* a Set of three updates whose second is read-only was served: the reply is
\* the read-only reason, the SSID of the first update is on the device and
\* the channel of the third is not
C19_Witness ==
    /\ SetServed
    /\ Len(extract_set_updates(InMsg.body.val)) = 3
    /\ Len(sent) = 1
    /\ ReplyIsError(7200, <<"Device.DeviceInfo.* is read-only">>)
    /\ dev.uci["wireless.@wifi-iface[0].ssid"] = <<"guest-net">>
    /\ dev.uci["wireless.radio0.channel"] = <<"11">>

\* the routed prefixes, each with the operation its commands must end with
Routes ==
    { <<P_Camera, "Capture()">>, <<P_Firmware, "Download()">>, <<P_Security, "IssueCert()">> }
Routed(command) ==
    \E r \in Routes : StartsWith(command, r[1]) /\ EndsWith(command, <<".", r[2]>>)

\* the outcomes of the handler a routed command belongs to
HandlerOutcomes(d, command, input_args) ==
    IF StartsWith(command, P_Camera) THEN cameras_operate_capture(d, command, input_args)
    ELSE IF StartsWith(command, P_Firmware) THEN firmware_operate_download(d, command, input_args)
    ELSE security_operate_issue_cert(d, command, input_args)

ReplyIsOperateResp(command_key, output_args) ==
    /\ Reply.header.val.msg_type = "OperateResp"
    /\ ReplyInner.tag = "Response"
    /\ ReplyInner.resp_type.some
    /\ ReplyInner.resp_type.val.tag = "OperateResp"
    /\ ReplyInner.resp_type.val.command_key = command_key
    /\ Len(ReplyInner.resp_type.val.operation_results) = 1
    /\ ReplyInner.resp_type.val.operation_results[1].operate_resp_type =
          Some([tag |-> "ReqOutputArgs", output_args |-> output_args])

\* C20: a step that serves an Operate sends exactly one Record.  A command
\* that does not both start with a routed prefix and end with that prefix's
\* operation runs no handler (the device is untouched) and is answered with
\* Error 7800 "unknown command: <command>"; a routed command is answered, for
\* an outcome of its handler, with Error 7800 carrying the handler's reason
\* when it failed and with an OperateResp holding exactly one OperationResult
\* with ReqOutputArgs and the request's command_key when it succeeded.
C20_OperateReply ==
    [][ OperateServed' =>
          \E op \in {extract_operate(InMsg'.body.val)} :
             /\ Len(sent') = 1
             /\ IsMsgRecord(sent'[1].data.rec)
             /\ ~Routed(op[1]) =>
                   /\ dev' = dev
                   /\ ReplyIsError(7800, <<"unknown command: ">> \o op[1])'
             /\ Routed(op[1]) =>
                   \E o \in HandlerOutcomes(dev, op[1], op[3]) :
                      /\ dev' = o.dev
                      /\ o.res.ok  => ReplyIsOperateResp(op[2], o.res.val)'
                      /\ ~o.res.ok => ReplyIsError(7800, o.res.err)' ]_vars

\* a camera command that does not end in Capture() was served and answered
\* with the unknown-command Error
C20_Witness ==
    /\ OperateServed
    /\ StartsWith(extract_operate(InMsg.body.val)[1], P_Camera)
    /\ ~Routed(extract_operate(InMsg.body.val)[1])
    /\ Len(sent) = 1
    /\ ReplyIsError(7800, <<"unknown command: ">> \o extract_operate(InMsg.body.val)[1])

\* an IssueCert() was served and answered with an OperateResp of one result
\* carrying the request's command_key
C20_WitnessOk ==
    /\ OperateServed
    /\ Routed(extract_operate(InMsg.body.val)[1])
    /\ Len(sent) = 1
    /\ ReplyIsOperateResp(<<"k2">>, [k \in {<<"csr">>} |-> InitCertPem])


\* ---------------------------------------------------------------------------
\* C21 - NotifyResp
\* ---------------------------------------------------------------------------

\* C21: a step that serves a NotifyResp sends no frame, leaves the negotiated
\* versions (and whether they were stored) and the device as they were, and
\* leaves the loop serving the connection.
C21_NotifyRespSilent ==
    [][ (ServedMsg /\ InType = "NotifyResp")' =>
          /\ sent' = <<>>
          /\ negotiated_ver' = negotiated_ver
          /\ stored' = stored
          /\ dev' = dev
          /\ pc' = pc
          /\ pc'[last'.mtp] = "serve" ]_vars

\* a NotifyResp with a body was served on MQTT after "1.4" had been
\* negotiated there: nothing was sent, "1.4" stays, the loop serves
C21_Witness ==
    /\ ServedMsg
    /\ InType = "NotifyResp"
    /\ InMsg.body.some
    /\ last.mtp = "mqtt"
    /\ negotiated_ver["mqtt"] = V14
    /\ sent = <<>>
    /\ pc["mqtt"] = "serve"


\* ---------------------------------------------------------------------------
\* C22, C23, C29, C30 - the session context
\* ---------------------------------------------------------------------------

\* the last step was this operation of the session context
SessStep(kind) == last.mtp = "session" /\ last.ev.kind = kind

\* the oldest sequence id a context still keeps (next_seq when it keeps none)
OldestKept(ctx) ==
    IF ctx.next_seq - RetransmitCap > 1 THEN ctx.next_seq - RetransmitCap ELSE 1

\* C22: the first next_sequence_id of a new context returns 1; every call
\* returns the next_seq it found and leaves next_seq one above what it
\* returned; no other operation touches next_seq.  So successive calls
\* return 1, 2, 3, ... whatever advance_expected and retransmit calls come
\* between them.
C22_SequenceIdsIncreaseByOne ==
    [][ /\ (~session.some /\ session'.some) => session'.val.next_seq = 1
        /\ session.some =>
              IF SessStep("next_sequence_id")'
              THEN /\ last'.ev.ret = session.val.next_seq
                   /\ session'.val.next_seq = last'.ev.ret + 1
              ELSE session'.val.next_seq = session.val.next_seq ]_vars

\* the third call returned 3 after two advance_expected calls came between
\* the calls
C22_Witness ==
    /\ SessStep("next_sequence_id")
    /\ last.ev.ret = 3
    /\ session.val.next_seq = 4
    /\ session.val.expected_id = 3

\* C23: the retransmit buffer never holds more than 256 entries; a
\* next_sequence_id on a buffer of 256 drops exactly the oldest entry and
\* appends the new one, and on a shorter buffer only appends.
C23_BufferBounded ==
    [][ session'.some =>
          /\ Len(session'.val.retransmit_buf) <= 256
          /\ (session.some /\ SessStep("next_sequence_id")') =>
                session'.val.retransmit_buf =
                   Append(IF Len(session.val.retransmit_buf) = 256
                          THEN Tail(session.val.retransmit_buf)
                          ELSE session.val.retransmit_buf,
                          <<last'.ev.ret, last'.ev.payload>>) ]_vars

\* the 257th entry was pushed: the buffer holds 256 entries, the entry of
\* sequence 1 is gone and the one of sequence 2 is the oldest
C23_Witness ==
    /\ SessStep("next_sequence_id")
    /\ last.ev.ret = 257
    /\ Len(session.val.retransmit_buf) = 256
    /\ session.val.retransmit_buf[1][1] = 2
    /\ session.val.retransmit_buf[256][1] = 257

\* C29: whenever the context changes, its buffer holds the sequence ids from
\* the oldest kept (the 256 most recent) to the newest, ascending and without
\* gaps; retransmit answers the entry's payload for an id in that range and
\* none for any other id; a next_sequence_id makes retransmit of the id it
\* returned answer the payload it was passed, and leaves every other kept
\* entry as it was.
C29_RetransmitFindsRecent ==
    [][ (session'.some /\ session' # session) =>
          LET buf == session'.val.retransmit_buf
              lo  == OldestKept(session'.val)
          IN /\ Len(buf) = session'.val.next_seq - lo
             /\ \A i \in 1..Len(buf) : buf[i][1] = lo + i - 1
             /\ \A s \in Probes(session'.val) :
                   retransmit(session'.val, s) =
                      (IF s >= lo /\ s < session'.val.next_seq
                       THEN Some(buf[s - lo + 1][2]) ELSE None)
             /\ (session.some /\ SessStep("next_sequence_id")') =>
                   /\ retransmit(session'.val, last'.ev.ret) = Some(last'.ev.payload)
                   /\ \A i \in 1..(Len(buf) - 1) :
                         \E j \in {i, i + 1} :
                            /\ j <= Len(session.val.retransmit_buf)
                            /\ buf[i] = session.val.retransmit_buf[j] ]_vars

\* after 258 calls a peer asked for sequence 2: it is evicted, retransmit
\* answers none
C29_Witness ==
    /\ SessStep("retransmit")
    /\ session.val.next_seq = 259
    /\ last.ev.seq_id = 2
    /\ last.ev.ret = None

\* a kept id is answered with its payload
C29_WitnessKept ==
    /\ SessStep("retransmit")
    /\ session.val.next_seq = 259
    /\ last.ev.seq_id = 258
    /\ last.ev.ret = Some([enc |-> "record", body |-> 0])

\* C30: advance_expected adds exactly 1 to expected_id and leaves session_id,
\* next_seq and the retransmit buffer as they were; next_sequence_id leaves
\* session_id and expected_id as they were; retransmit leaves the whole
\* context as it was.
C30_OperationsTouchOwnFields ==
    [][ session.some =>
          /\ SessStep("advance_expected")' =>
                /\ session'.val.expected_id = session.val.expected_id + 1
                /\ session'.val.session_id = session.val.session_id
                /\ session'.val.next_seq = session.val.next_seq
                /\ session'.val.retransmit_buf = session.val.retransmit_buf
          /\ SessStep("next_sequence_id")' =>
                /\ session'.val.session_id = session.val.session_id
                /\ session'.val.expected_id = session.val.expected_id
          /\ SessStep("retransmit")' => session' = session ]_vars

\* an advance_expected on a context of session 7 that had allocated one
\* sequence id: expected_id is 3, the rest is as the earlier calls left it
C30_Witness ==
    /\ SessStep("advance_expected")
    /\ session.val.session_id = 7
    /\ session.val.expected_id = 3
    /\ session.val.next_seq = 2
    /\ Len(session.val.retransmit_buf) = 1


\* ---------------------------------------------------------------------------
\* C24, C25 - the reply to a Get
\* ---------------------------------------------------------------------------

\* the last step served a Get that carries a body
GetServed == ServedMsg /\ InType = "Get" /\ InMsg.body.some

\* param_paths and max_depth of the served Get, as the controller wrote them
\* (none and 0 when the body holds no Get request)
RequestedPaths ==
    IF ReqOf(InMsg.body.val, "Get").some
    THEN ReqOf(InMsg.body.val, "Get").val.param_paths ELSE <<>>
RequestedDepth ==
    IF ReqOf(InMsg.body.val, "Get").some
    THEN ReqOf(InMsg.body.val, "Get").val.max_depth ELSE 0

ReplyIsGetResp ==
    /\ Len(sent) = 1
    /\ IsMsgRecord(sent[1].data.rec)
    /\ Reply.header.val.msg_type = "GetResp"
    /\ ReplyInner.tag = "Response"
    /\ ReplyInner.resp_type.some
    /\ ReplyInner.resp_type.val.tag = "GetResp"

\* the req_path_results of the GetResp, and the (key, value) pairs they carry
GetResults == ReplyInner.resp_type.val.req_path_results
PairOf(r)  == <<r.requested_path, r.resolved_path_results[1].result_params[<<>>]>>
PairsOf(m) == { <<k, m[k]>> : k \in DOMAIN m }

\* C24: a step that serves a Get answers with a GetResp in which, for
\* max_depth = d > 0, every key was returned by the handlers for a requested
\* path with n dots and has at most n + d dots (so for a single requested path
\* no key has more than n + d dots), with the value the handlers returned; for
\* max_depth = 0 the pairs of the GetResp are exactly the pairs the handlers
\* returned for the requested paths.
C24_DepthFilter ==
    [][ GetServed' =>
          /\ ReplyIsGetResp'
          /\ \E paths \in {RequestedPaths'}, d \in {RequestedDepth'}, rs \in {GetResults'} :
                /\ d > 0 =>
                      \A i \in 1..Len(rs) :
                         \E j \in 1..Len(paths) :
                            /\ PairOf(rs[i]) \in PairsOf(dispatch_get(dev, paths[j]))
                            /\ CountDots(rs[i].requested_path) <= CountDots(paths[j]) + d
                /\ (d > 0 /\ Len(paths) = 1) =>
                      \A i \in 1..Len(rs) :
                         CountDots(rs[i].requested_path) <= CountDots(paths[1]) + d
                /\ d = 0 =>
                      { PairOf(rs[i]) : i \in 1..Len(rs) } =
                         UNION { PairsOf(dispatch_get(dev, paths[j])) : j \in 1..Len(paths) } ]_vars

\* a Get of Device.WiFi. with max_depth 2 was answered with the two keys of
\* four dots, the keys of five dots left out
C24_Witness ==
    /\ GetServed
    /\ RequestedPaths = <<P_WiFi>> /\ RequestedDepth = 2
    /\ ReplyIsGetResp
    /\ Len(GetResults) = 2
    /\ \A i \in 1..2 : CountDots(GetResults[i].requested_path) = 4
    /\ Cardinality(DOMAIN dispatch_get(dev, P_WiFi)) = 4

\* a Get of Device.WiFi. with max_depth 0 was answered with all four pairs
C24_WitnessAll ==
    /\ GetServed
    /\ RequestedPaths = <<P_WiFi>> /\ RequestedDepth = 0
    /\ ReplyIsGetResp
    /\ Len(GetResults) = 4

\* C25 as stated: the GetResp holds exactly one RequestedPathResult per
\* requested path, each with one ResolvedPathResult whose result_params is a
\* single-entry map keyed by the empty text.
C25_OnePerRequestedPath ==
    [][ GetServed' =>
          /\ ReplyIsGetResp'
          /\ \E paths \in {RequestedPaths'}, rs \in {GetResults'} :
                /\ Len(rs) = Len(paths)
                /\ \A i \in 1..Len(rs) :
                      /\ Len(rs[i].resolved_path_results) = 1
                      /\ DOMAIN rs[i].resolved_path_results[1].result_params = {<<>>} ]_vars

\* C25, amended: the GetResp holds exactly one RequestedPathResult per
\* returned parameter (none for a path that resolves to nothing, several for
\* a path that resolves to several parameters, one for a parameter requested
\* twice); its requested_path is the full path of the parameter, its err_code
\* 0 and err_msg empty, and it has one ResolvedPathResult with that same path
\* whose result_params is a single-entry map from the empty text to the value.
C25_OnePerReturnedParameter ==
    [][ GetServed' =>
          /\ ReplyIsGetResp'
          /\ \E paths \in {RequestedPaths'}, d \in {RequestedDepth'}, rs \in {GetResults'} :
                LET params == get_params(dev, paths, d) IN
                /\ Len(rs) = Cardinality(DOMAIN params)
                /\ { rs[i].requested_path : i \in 1..Len(rs) } = DOMAIN params
                /\ \A i \in 1..Len(rs) :
                      /\ rs[i].err_code = 0
                      /\ rs[i].err_msg = <<>>
                      /\ Len(rs[i].resolved_path_results) = 1
                      /\ rs[i].resolved_path_results[1].resolved_path = rs[i].requested_path
                      /\ DOMAIN rs[i].resolved_path_results[1].result_params = {<<>>}
                      /\ rs[i].resolved_path_results[1].result_params[<<>>] =
                            params[rs[i].requested_path] ]_vars

\* one requested path, Device.WiFi., was answered with four results
C25_Witness ==
    /\ GetServed
    /\ RequestedPaths = <<P_WiFi>> /\ RequestedDepth = 0
    /\ ReplyIsGetResp
    /\ Len(GetResults) = 4
    /\ \A i \in 1..4 : DOMAIN GetResults[i].resolved_path_results[1].result_params = {<<>>}
    /\ \E i \in 1..4 : GetResults[i].requested_path = P_Ssid1 \o <<"SSID">>


\* ---------------------------------------------------------------------------
\* C26, C27 - the order of the collaborator calls
\* ---------------------------------------------------------------------------

\* the last step set one parameter / operated a firmware Download()
SetStep     == last.mtp = "dm" /\ last.ev.kind = "set"
OperateStep == last.mtp = "dm" /\ last.ev.kind = "operate"

\* the "url" input argument, empty when there is none
UrlOf(input_args) == IF <<"url">> \in DOMAIN input_args THEN input_args[<<"url">>] ELSE <<>>

\* C26: a firmware Download() without "url", or with an empty one, fails
\* (the reply is Error 7800) without any call of a collaborator - no download,
\* no write, no apply - and leaves the device as it was; and whenever the
\* firmware-apply collaborator is called, it is the call after a request that
\* was answered, a body that was read and a write of {fw_dir}/firmware.bin
\* that succeeded, in that order, and it is given that same file.
C26_ApplyOnlyAfterDownload ==
    [][ OperateStep' =>
          \E ev \in {last'.ev} :
             /\ UrlOf(ev.input_args) = <<>> =>
                   /\ ~ev.res.ok
                   /\ ev.calls = <<>>
                   /\ dev' = dev
                   /\ operate_reply("m1", ev.command, <<"k">>, ev.res) =
                         build_error("m1", 7800, ev.res.err)
             /\ \A i \in 1..Len(ev.calls) :
                   ev.calls[i].cmd = "apply_firmware" =>
                      /\ i = 4
                      /\ ev.calls[1] = Call("http get", UrlOf(ev.input_args), <<>>, TRUE)
                      /\ ev.calls[2] = Call("http body", UrlOf(ev.input_args), <<>>, TRUE)
                      /\ ev.calls[3] = Call("write", <<FwDir, "/", "firmware.bin">>, <<"image">>, TRUE)
                      /\ ev.calls[4].target = <<FwDir, "/", "firmware.bin">> ]_vars

\* a Download() with a url went through: request, body, write and apply, all
\* successful, and the image is applied
C26_Witness ==
    /\ OperateStep
    /\ UrlOf(last.ev.input_args) = FwUrl
    /\ last.ev.res.ok
    /\ Len(last.ev.calls) = 4
    /\ last.ev.calls[4] = Call("apply_firmware", FwPath, <<>>, TRUE)
    /\ dev.fw = "applied"

\* a Download() whose write failed: three calls, no apply
C26_WitnessWriteFailed ==
    /\ OperateStep
    /\ Len(last.ev.calls) = 3
    /\ last.ev.calls[3].cmd = "write" /\ ~last.ev.calls[3].ok
    /\ ~last.ev.res.ok

\* the UCI option each settable Device.WiFi. parameter is kept in
WiFiOption(param) ==
    CASE param = "SSID"          -> "wireless.@wifi-iface[0].ssid"
      [] param = "KeyPassphrase" -> "wireless.@wifi-iface[0].key"
      [] param = "ModeEnabled"   -> "wireless.@wifi-iface[0].encryption"
      [] param = "Channel"       -> "wireless.radio0.channel"

\* C27: a Set of a Device.WiFi. parameter SSID, KeyPassphrase, ModeEnabled or
\* Channel first calls uci set for the mapped option with the value; if that
\* succeeded it then calls uci commit("wireless") and nothing else; if it
\* failed there is no commit and the Set fails.
C27_SetThenCommit ==
    [][ (SetStep' /\ StartsWith(last'.ev.path, P_WiFi)
                  /\ last'.ev.path[Len(last'.ev.path)] \in WiFiParams) =>
          \E ev \in {last'.ev} :
             /\ Len(ev.calls) >= 1
             /\ ev.calls[1].cmd = "uci set"
             /\ ev.calls[1].target = WiFiOption(ev.path[Len(ev.path)])
             /\ ev.calls[1].value = ev.value
             /\ ev.calls[1].ok =>
                   /\ Len(ev.calls) = 2
                   /\ ev.calls[2].cmd = "uci commit"
                   /\ ev.calls[2].target = "wireless"
             /\ ~ev.calls[1].ok =>
                   /\ Len(ev.calls) = 1
                   /\ ~ev.res.ok
                   /\ dev' = dev ]_vars

\* the SSID was set to guest-net: uci set of the ssid option, then the commit
\* of wireless, and the value is committed
C27_Witness ==
    /\ SetStep
    /\ last.ev.path = P_Ssid1 \o <<"SSID">>
    /\ last.ev.res.ok
    /\ last.ev.calls = << Call("uci set", "wireless.@wifi-iface[0].ssid", <<"guest-net">>, TRUE),
                          Call("uci commit", "wireless", <<>>, TRUE) >>
    /\ dev.saved["wireless.@wifi-iface[0].ssid"] = <<"guest-net">>

\* a set failed: one call, no commit, the Set failed
C27_WitnessFailed ==
    /\ SetStep
    /\ last.ev.path = P_Ssid1 \o <<"SSID">>
    /\ Len(last.ev.calls) = 1
    /\ ~last.ev.calls[1].ok
    /\ ~last.ev.res.ok


\* ---------------------------------------------------------------------------
\* C28 - round trip
\* ---------------------------------------------------------------------------

CodecStep == last.mtp = "codec"

\* C28: decoding the encoding of a Record (NoSessionContext, WebsocketConnect,
\* MqttConnect, Disconnect) or of a Msg (Boot! Notify, ValueChange Notify,
\* GetSupportedProto, GetResp, SetResp, OperateResp, NotifyResp, Error) the
\* builders make gives back the value that was encoded, whatever the order
\* its maps were written in.
C28_RoundTrip == CodecStep => last.ev.back = last.ev.x

\* a GetResp of four results went through the codec: the keys of its
\* result_params, the empty text, are not on the wire, and it came back equal
C28_Witness ==
    /\ CodecStep
    /\ last.ev.kind = "Msg"
    /\ last.ev.x.header.val.msg_type = "GetResp"
    /\ Len(last.ev.x.body.val.msg_body.val.resp_type.val.req_path_results) = 4
    /\ last.ev.bytes # <<>>
    /\ last.ev.back = last.ev.x

\* a WebsocketConnect Record went through the codec: its empty sub-message is
\* on the wire and it came back equal
C28_WitnessRecord ==
    /\ CodecStep
    /\ last.ev.kind = "Record"
    /\ last.ev.x.record_type = Some(WebsocketConnect)
    /\ \E i \in 1..Len(last.ev.bytes) : last.ev.bytes[i].num = 9 /\ last.ev.bytes[i].val = <<>>
    /\ last.ev.back = last.ev.x


\* ---------------------------------------------------------------------------
\* C31 - payload extraction
\* ---------------------------------------------------------------------------

\* the last step served a Record that is for the agent
ServedOwnRecord == ServedRecord /\ InRec.to_id \in {"", AgentId}

\* the last step handled the Msg bytes p: the state and the frames sent are
\* those of one outcome of the engine on p, and the connection is kept unless
\* a WebSocket send failed
HandledPayload(p) ==
    \E m \in {last'.mtp} :
    \E o \in handle_incoming(p, negotiated_ver[m], dev) :
       /\ dev' = o.dev
       /\ negotiated_ver' = [negotiated_ver EXCEPT ![m] = o.ver]
       /\ Len(sent') = (IF o.resp.some THEN 1 ELSE 0)
       /\ o.resp.some =>
             /\ IsMsgRecord(sent'[1].data.rec)
             /\ sent'[1].data.rec.record_type.val.payload = o.resp.val
       /\ (sent' = <<>> \/ m = "mqtt") => pc' = pc

\* the last step did nothing
NothingDone ==
    /\ sent' = <<>>
    /\ negotiated_ver' = negotiated_ver
    /\ stored' = stored
    /\ dev' = dev
    /\ pc' = pc
    /\ pc'[last'.mtp] = "serve"

\* C31: a step that serves a Record for the agent handles the payload of a
\* NoSessionContext Record; of a SessionContext Record it handles the first
\* segment alone, whatever the later segments are, and does nothing when
\* there is no segment; for a WebsocketConnect, MqttConnect or Disconnect
\* Record and for one without record_type it sends no frame, changes no
\* state and keeps the connection serving.
C31_PayloadExtraction ==
    [][ ServedOwnRecord' =>
          \E rt \in {InRec'.record_type} :
             /\ ~rt.some => NothingDone
             /\ (rt.some /\ rt.val.tag \in {"WebsocketConnect", "MqttConnect", "Disconnect"})
                   => NothingDone
             /\ (rt.some /\ rt.val.tag = "NoSessionContext") => HandledPayload(rt.val.payload)
             /\ (rt.some /\ rt.val.tag = "SessionContext" /\ rt.val.payload = <<>>)
                   => NothingDone
             /\ (rt.some /\ rt.val.tag = "SessionContext" /\ rt.val.payload # <<>>)
                   => HandledPayload(rt.val.payload[1]) ]_vars

\* a SessionContext Record whose first segment is a Get and whose second is a
\* Set was served: the reply is the GetResp and the device is untouched
C31_Witness ==
    /\ ServedOwnRecord
    /\ InRec.record_type.some
    /\ InRec.record_type.val.tag = "SessionContext"
    /\ Len(InRec.record_type.val.payload) = 2
    /\ InRec.record_type.val.payload[1] = Bytes(In("m1", "Get", GetUpTime))
    /\ InRec.record_type.val.payload[2] = Bytes(In("m2", "Set", SetSsid))
    /\ Len(sent) = 1
    /\ Reply.header.val.msg_type = "GetResp"
    /\ dev = InitDev

\* a Disconnect Record was served: nothing sent, the loop still serves
C31_WitnessNone ==
    /\ ServedOwnRecord
    /\ InRec.record_type.some
    /\ InRec.record_type.val.tag = "Disconnect"
    /\ sent = <<>>
    /\ pc[last.mtp] = "serve"


\* ---------------------------------------------------------------------------
\* C32 - a response that cannot be sent
\* ---------------------------------------------------------------------------

\* the last step served a frame / publish and the transport refused the
\* response it handed over
ResponseSendFailed ==
    /\ last.mtp \in MTPs
    /\ last.ev.kind \in {"Binary", "Publish"}
    /\ \E i \in 1..Len(sent) : ~sent[i].ok

\* C32: on both MTPs, after a step whose response the transport refused (a
\* failed WebSocket send, a failed MQTT publish) the connection is over: the
\* task is in its reconnect delay.
C32_SendErrorEndsConnection ==
    ResponseSendFailed => pc[last.mtp] = "sleep"


\* ---------------------------------------------------------------------------
\* C33 - Ping, Close and the other frames
\* ---------------------------------------------------------------------------

\* the last step served a WebSocket frame of one of these kinds
ServedFrame(kinds) == last.mtp = "ws" /\ last.ev.kind \in kinds

StateKept ==
    /\ negotiated_ver' = negotiated_ver
    /\ stored' = stored
    /\ dev' = dev

\* C33: a step that serves Ping(p) hands exactly one frame to the transport,
\* Pong(p) with the payload of the Ping, and changes neither version nor
\* device, and the loop goes on serving when the transport took the Pong; a
\* step that serves Close sends nothing, ends the serve loop, and the loop
\* then gets to connect again; a step that serves a frame that is neither
\* Binary, Ping nor Close sends nothing, changes nothing and goes on serving.
C33_PingCloseOther ==
    /\ [][ ServedFrame({"Ping"})' =>
             /\ Len(sent') = 1
             /\ sent'[1].kind = "Pong"
             /\ sent'[1].data = last'.ev.data
             /\ StateKept
             /\ sent'[1].ok => pc' = pc ]_vars
    /\ [][ ServedFrame({"Close"})' =>
             /\ sent' = <<>>
             /\ StateKept
             /\ pc'["ws"] = "sleep" ]_vars
    /\ [][ ServedFrame({"Text", "Pong", "Frame"})' =>
             /\ sent' = <<>>
             /\ StateKept
             /\ pc' = pc
             /\ pc'["ws"] = "serve" ]_vars
    /\ ServedFrame({"Close"}) ~>
          (pc["ws"] = "connect" /\ last = [mtp |-> "ws", ev |-> [kind |-> "reconnect"]])

\* a Ping with a payload of two bytes was answered with a Pong of those two
\* bytes and the loop serves on
C33_Witness ==
    /\ ServedFrame({"Ping"})
    /\ last.ev.data.body = <<"a", "b">>
    /\ sent = << Out("Pong", [enc |-> "ping payload", body |-> <<"a", "b">>], TRUE) >>
    /\ pc["ws"] = "serve"

\* a Close was served: nothing sent, the loop is in its delay
C33_WitnessClose ==
    /\ ServedFrame({"Close"})
    /\ sent = <<>>
    /\ pc["ws"] = "sleep"


\* ---------------------------------------------------------------------------
\* C34 - a Get of a path no handler serves
\* ---------------------------------------------------------------------------

\* the subtrees that have a GET handler
HandlerPrefixes ==
    {P_DeviceInfo, P_WiFi, P_IPInterface, P_DHCPv4, P_Hosts, P_Camera, P_Firmware}

Handled(path) == \E pre \in HandlerPrefixes : StartsWith(path, pre)

\* C34: a step that serves a Get replies with a GetResp, never an Error,
\* whatever paths are requested, and the pairs of the GetResp are those of
\* the same Get without the paths that match no handler prefix
\* (Device.X_OptimACS_Security. among them): such a path adds no pair and
\* takes none away.
C34_UnmatchedPathIsEmpty ==
    [][ GetServed' =>
          /\ ReplyIsGetResp'
          /\ \E paths \in {RequestedPaths'}, d \in {RequestedDepth'}, rs \in {GetResults'} :
                { PairOf(rs[i]) : i \in 1..Len(rs) } =
                   PairsOf(get_params(dev, SelectSeq(paths, Handled), d)) ]_vars

\* a Get of the Security subtree and of UpTime was answered with a GetResp
\* that holds UpTime alone
C34_Witness ==
    /\ GetServed
    /\ RequestedPaths = << P_Security, P_DeviceInfo \o <<"UpTime">> >>
    /\ ReplyIsGetResp
    /\ Len(GetResults) = 1
    /\ PairOf(GetResults[1]) = << P_DeviceInfo \o <<"UpTime">>, UpTimeText >>

\* a Get of the Security subtree alone was answered with an empty GetResp
C34_WitnessEmpty ==
    /\ GetServed
    /\ RequestedPaths = << P_Security >>
    /\ ReplyIsGetResp
    /\ GetResults = <<>>


\* ---------------------------------------------------------------------------
\* C35 - the negotiated version is not empty
\* ---------------------------------------------------------------------------

\* C35: in every state the cell of each MTP holds a version that is not the
\* empty string, and every Record of the last step carries a version that
\* is not the empty string.
C35_VersionNeverEmpty ==
    /\ \A m \in MTPs : negotiated_ver[m] # <<>>
    /\ \A r \in SentRecords : r.version # <<>>


\* ---------------------------------------------------------------------------
\* The MTP loops beside the status heartbeat
\*
\* agent::run spawns status_loop before it starts the MTP: every
\* status_interval seconds the task reads the uptime, the load average and
\* the free memory and logs them.  It holds no handle of an MTP and hands
\* nothing to a transport.
\* ---------------------------------------------------------------------------

status_loop ==
    /\ tasks.status > 0
    /\ last' = [mtp |-> "none", ev |-> [kind |-> "status"]]
    /\ sent' = <<>>
    /\ UNCHANGED <<cfg, tasks, gnss, pc, session, negotiated_ver, stored, dev, loopvars>>

\* the most heartbeat tasks the model lets main start
MaxTasks == 3

\* main's loop (main.rs:138-143): call agent::run and await it; when it has
\* returned, log, sleep 30 s and call it again.  agent::run starts its tasks
\* afresh each time; tasks spawned by an earlier call are not stopped.
MainLoop ==
    /\ \/ tasks.main = "call"
       \/ tasks.main = "await" /\ pc[Awaited(cfg)] = "done"
    /\ tasks.status < MaxTasks
    /\ tasks' = Started(tasks, cfg)
    /\ pc' = [m \in MTPs |-> IF Selected(cfg, m) THEN "connect" ELSE "off"]
    /\ negotiated_ver' = [m \in MTPs |-> V13]
    /\ stored' = [m \in MTPs |-> FALSE]
    /\ last' = [mtp |-> "none", ev |-> [kind |-> "run"]]
    /\ sent' = <<>>
    /\ UNCHANGED <<cfg, gnss, session, dev, loopvars>>

\* main has reached its loop with a configuration validate_config accepted
AgentInit ==
    /\ cfg \in Configs
    /\ pc = [m \in MTPs |-> "off"]
    /\ negotiated_ver = [m \in MTPs |-> V13]
    /\ stored = [m \in MTPs |-> FALSE]
    /\ dev = InitDev
    /\ last = [mtp |-> "none", ev |-> [kind |-> "start"]]
    /\ sent = <<>>
    /\ inbox = [m \in MTPs |-> <<>>]
    /\ handling = [m \in MTPs |-> None]
    /\ ticket = [m \in MTPs |-> [arrived |-> 0, taken |-> 0, replied |-> 0]]
    /\ session = None
    /\ tasks = NoTasks
    /\ gnss = NoFix

AgentNext ==
    \/ MainLoop
    \/ status_loop
    \/ Next

AgentSpec == AgentInit /\ [][AgentNext]_vars

\* ---------------------------------------------------------------------------
\* C36 - when a Boot! Notify is sent
\* ---------------------------------------------------------------------------

BootSent == \E r \in SentRecords : IsMsgRecord(r) /\ IsBootNotify(MsgOf(r))

\* the last step took a Record the loop does not discard (addressed to the
\* agent or to nobody) that carries a Msg with a header
TookMsg ==
    /\ ServedRecord
    /\ ~Misaddressed
    /\ InRec.record_type.some
    /\ \/ /\ InRec.record_type.val.tag = "NoSessionContext"
          /\ InRec.record_type.val.payload.enc = "Msg"
       \/ /\ InRec.record_type.val.tag = "SessionContext"
          /\ InRec.record_type.val.payload # <<>>
          /\ InRec.record_type.val.payload[1].enc = "Msg"
    /\ InMsg.header.some

C36_WitnessConnect ==
    /\ last = [mtp |-> "ws", ev |-> [kind |-> "connect"]]
    /\ Len(sent) = 2
    /\ ~BootSent

\* the heartbeat ran beside a serving MTP and sent nothing
C36_WitnessHeartbeat ==
    /\ last.ev.kind = "status"
    /\ \E m \in MTPs : pc[m] = "serve"
    /\ sent = <<>>


\* ---------------------------------------------------------------------------
\* C37 - one task of each kind
\* ---------------------------------------------------------------------------

\* C37: in every state at most one status heartbeat task runs and at most
\* one connection loop runs per MTP: main never calls agent::run while a
\* task spawned by an earlier call still runs.
C37_OneTaskOfEachKind ==
    /\ tasks.status <= 1
    /\ tasks.ws <= 1
    /\ tasks.mqtt <= 1

\* Both MTPs selected and configured: the heartbeat and both loops run, one
\* of each, and both loops are serving
C37_Witness ==
    /\ tasks = [main |-> "await", status |-> 1, ws |-> 1, mqtt |-> 1]
    /\ pc = [ws |-> "serve", mqtt |-> "serve"]

\* Both MTPs selected, MQTT not configured: the spawned MQTT task has
\* returned and the WebSocket loop reconnects beside the one heartbeat
C37_WitnessMqttReturned ==
    /\ tasks = [main |-> "await", status |-> 1, ws |-> 1, mqtt |-> 0]
    /\ pc["mqtt"] = "done"
    /\ last = [mtp |-> "ws", ev |-> [kind |-> "reconnect"]]


\* ---------------------------------------------------------------------------
\* GNSS reader (gnss.rs)
\*
\* A line is the sequence of its characters.
\* ---------------------------------------------------------------------------

\* the byte of each character the lines are made of
Ascii ==
    " " :> 32 @@
    "$" :> 36 @@
    "*" :> 42 @@
    "," :> 44 @@
    "." :> 46 @@
    "0" :> 48 @@
    "1" :> 49 @@
    "2" :> 50 @@
    "3" :> 51 @@
    "4" :> 52 @@
    "5" :> 53 @@
    "6" :> 54 @@
    "7" :> 55 @@
    "8" :> 56 @@
    "9" :> 57 @@
    "A" :> 65 @@
    "B" :> 66 @@
    "C" :> 67 @@
    "D" :> 68 @@
    "E" :> 69 @@
    "G" :> 71 @@
    "L" :> 76 @@
    "M" :> 77 @@
    "N" :> 78 @@
    "P" :> 80 @@
    "R" :> 82 @@
    "S" :> 83 @@
    "V" :> 86 @@
    "W" :> 87 @@
    "a" :> 97

\* bit i of the XOR of the bytes of s: set when the bytes with bit i set
\* are odd in number
XorBit(s, i) ==
    Cardinality({k \in 1..Len(s) : (Ascii[s[k]] \div (2 ^ i)) % 2 = 1}) % 2

\* body.bytes().fold(0u8, |acc, b| acc ^ b)
XorBytes(s) ==
    XorBit(s, 0) + 2 * XorBit(s, 1) + 4 * XorBit(s, 2) + 8 * XorBit(s, 3)
    + 16 * XorBit(s, 4) + 32 * XorBit(s, 5) + 64 * XorBit(s, 6) + 128 * XorBit(s, 7)

\* char::to_digit(16)
HexValue ==
    "0" :> 0 @@ "1" :> 1 @@ "2" :> 2 @@ "3" :> 3 @@ "4" :> 4 @@ "5" :> 5 @@ "6" :> 6 @@
    "7" :> 7 @@ "8" :> 8 @@ "9" :> 9 @@ "A" :> 10 @@ "B" :> 11 @@ "C" :> 12 @@ "D" :> 13 @@
    "E" :> 14 @@ "F" :> 15 @@ "a" :> 10 @@ "b" :> 11 @@ "c" :> 12 @@ "d" :> 13 @@ "e" :> 14 @@
    "f" :> 15

RECURSIVE HexAcc(_, _)
HexAcc(s, acc) ==
    IF s = <<>> THEN Some(acc)
    ELSE IF Head(s) \notin DOMAIN HexValue THEN None
    ELSE IF acc * 16 + HexValue[Head(s)] > 255 THEN None
    ELSE HexAcc(Tail(s), acc * 16 + HexValue[Head(s)])

\* u8::from_str_radix(s, 16): an optional '+', then at least one digit, and
\* the value fits a byte
u8_from_str_radix(s) ==
    LET digits == IF s # <<>> /\ Head(s) = "+" THEN Tail(s) ELSE s
    IN IF digits = <<>> THEN None ELSE HexAcc(digits, 0)

\* str::split(char) of a line: the pieces between the separators, one more
\* than there are separators
SplitLine(s, sep) ==
    LET at     == {i \in 1..Len(s) : s[i] = sep}
        pos(k) == IF k = 0 THEN 0
                  ELSE IF k = Cardinality(at) + 1 THEN Len(s) + 1
                  ELSE CHOOSE i \in at : Cardinality({j \in at : j <= i}) = k
    IN [k \in 1..(Cardinality(at) + 1) |-> SubSeq(s, pos(k - 1) + 1, pos(k) - 1)]

\* str::find(char): the place of the first occurrence, 0 for none
Find(s, c) ==
    IF \E i \in 1..Len(s) : s[i] = c
    THEN CHOOSE i \in 1..Len(s) : s[i] = c /\ \A j \in 1..(i - 1) : s[j] # c
    ELSE 0

nmea_checksum_ok(sentence) ==
    LET inner == TrimStartMatches(sentence, <<"$">>)
        star  == Find(inner, "*")
    IN IF star = 0 THEN FALSE
       ELSE LET body     == SubSeq(inner, 1, star - 1)
                expected == u8_from_str_radix(Trim(SubSeq(inner, star + 1, Len(inner))))
            IN expected.some /\ XorBytes(body) = expected.val

IsDigit(c) == c \in {"0", "1", "2", "3", "4", "5", "6", "7", "8", "9"}

RECURSIVE DecValue(_)
DecValue(s) ==
    IF s = <<>> THEN 0 ELSE DecValue(SubSeq(s, 1, Len(s) - 1)) * 10 + HexValue[s[Len(s)]]

\* str::parse::<f64> of plain decimal text: digits around at most one point,
\* one digit at least; the number is int + frac / 10^scale.  Text of another
\* shape is an error.  (Rust also reads a sign, an exponent and the
\* spellings of infinity and NaN; no line of NmeaLines holds one in a
\* coordinate.)
parse_f64(s) ==
    LET dot == Find(s, ".")
        ip  == IF dot = 0 THEN s ELSE SubSeq(s, 1, dot - 1)
        fp  == IF dot = 0 THEN <<>> ELSE SubSeq(s, dot + 1, Len(s))
    IN IF /\ \A i \in 1..Len(ip) : IsDigit(ip[i])
          /\ \A i \in 1..Len(fp) : IsDigit(fp[i])
          /\ Len(ip) + Len(fp) > 0
       THEN Some([int |-> DecValue(ip), frac |-> DecValue(fp), scale |-> Len(fp)])
       ELSE None

\* DDDMM.mmm and a hemisphere to decimal degrees: the sign, the degrees and
\* the minutes (degrees + minutes / 60.0)
nmea_to_decimal(coord, hemi) ==
    LET p == Find(coord, ".")
    IN IF coord = <<>> \/ p = 0 \/ p - 1 < 2 THEN None
       ELSE LET degrees == parse_f64(SubSeq(coord, 1, p - 3))
                minutes == parse_f64(SubSeq(coord, p - 2, Len(coord)))
            IN IF ~degrees.some \/ ~minutes.some THEN None
               ELSE Some([neg     |-> hemi = <<"S">> \/ hemi = <<"W">>,
                          degrees |-> degrees.val,
                          minutes |-> minutes.val])

RECURSIVE Pow10(_)
Pow10(n) == IF n = 0 THEN 1 ELSE 10 * Pow10(n - 1)

DigitChar(d) == <<"0", "1", "2", "3", "4", "5", "6", "7", "8", "9">>[d + 1]

RECURSIVE DecText(_)
DecText(n) == IF n < 10 THEN <<DigitChar(n)>> ELSE DecText(n \div 10) \o <<DigitChar(n % 10)>>

\* format!("{x:.6}") of degrees + minutes / 60.0: the value rounded to a
\* millionth of a degree, the sign first
format_6(x) ==
    LET k     == x.minutes.scale
        m     == x.minutes.int * Pow10(k) + x.minutes.frac
        part  == IF k <= 6 THEN (m * Pow10(6 - k) + 30) \div 60
                 ELSE (m + 30 * Pow10(k - 6)) \div (60 * Pow10(k - 6))
        micro == x.degrees.int * 1000000 + part
    IN (IF x.neg THEN <<"-">> ELSE <<>>)
       \o DecText(micro \div 1000000) \o <<".">>
       \o [i \in 1..6 |-> DigitChar((micro \div Pow10(6 - i)) % 10)]

GnssPosition(lat, lon) == [latitude |-> lat, longitude |-> lon]

\* an RMC parser that does not look at the status field
parse_rmc_any_status(f) ==
    IF Len(f) < 7 THEN None
    ELSE LET lat == nmea_to_decimal(f[4], f[5])
             lon == nmea_to_decimal(f[6], f[7])
         IN IF ~lat.some \/ ~lon.some THEN None
            ELSE Some(GnssPosition(format_6(lat.val), format_6(lon.val)))

\* $GPRMC,HHMMSS.ss,A,LLLL.ll,a,YYYYY.yy,a,...  (f[1] is the sentence type)
parse_rmc(f) ==
    IF Len(f) < 7 THEN None
    ELSE IF f[3] # <<"A">> THEN None
    ELSE LET lat == nmea_to_decimal(f[4], f[5])
             lon == nmea_to_decimal(f[6], f[7])
         IN IF ~lat.some \/ ~lon.some THEN None
            ELSE Some(GnssPosition(format_6(lat.val), format_6(lon.val)))

\* $GPGGA,HHMMSS.ss,LLLL.ll,a,YYYYY.yy,a,q,...
parse_gga(f) ==
    IF Len(f) < 7 THEN None
    ELSE IF f[7] = <<"0">> \/ f[7] = <<>> THEN None
    ELSE LET lat == nmea_to_decimal(f[3], f[4])
             lon == nmea_to_decimal(f[5], f[6])
         IN IF ~lat.some \/ ~lon.some THEN None
            ELSE Some(GnssPosition(format_6(lat.val), format_6(lon.val)))

GPRMC == <<"G", "P", "R", "M", "C">>
GNRMC == <<"G", "N", "R", "M", "C">>
GPGGA == <<"G", "P", "G", "G", "A">>
GNGGA == <<"G", "N", "G", "G", "A">>

parse_nmea(text) ==
    LET line == Trim(text)
    IN IF Contains(line, <<"*">>) /\ ~nmea_checksum_ok(line) THEN None
       ELSE LET sentence == SplitLine(TrimStartMatches(line, <<"$">>), "*")[1]
                fields   == SplitLine(sentence, ",")
            IN CASE fields[1] \in {GPRMC, GNRMC} -> parse_rmc(fields)
                 [] fields[1] \in {GPGGA, GNGGA} -> parse_gga(fields)
                 [] OTHER                         -> None

\* the lines the serial device delivers
NmeaLines ==
    {
      \* the RMC sentence of tests::parse_gprmc:
      \*   $GPRMC,123519,A,4807.038,N,01131.000,E,022.4,084.4,230394,003.1,W*6A
      <<"$", "G", "P", "R", "M", "C", ",", "1", "2", "3", "5", "1", "9", ",", "A", ",", "4", "8", "0", "7", ".", "0", "3", "8", ",", "N", ",", "0", "1", "1", "3", "1", ".", "0", "0", "0", ",", "E", ",", "0", "2", "2", ".", "4", ",", "0", "8", "4", ".", "4", ",", "2", "3", "0", "3", "9", "4", ",", "0", "0", "3", ".", "1", ",", "W", "*", "6", "A">>,
      \* the sentence of tests::invalid_fix_ignored: status V under the checksum of the A sentence:
      \*   $GPRMC,123519,V,4807.038,N,01131.000,E,022.4,084.4,230394,003.1,W*6A
      <<"$", "G", "P", "R", "M", "C", ",", "1", "2", "3", "5", "1", "9", ",", "V", ",", "4", "8", "0", "7", ".", "0", "3", "8", ",", "N", ",", "0", "1", "1", "3", "1", ".", "0", "0", "0", ",", "E", ",", "0", "2", "2", ".", "4", ",", "0", "8", "4", ".", "4", ",", "2", "3", "0", "3", "9", "4", ",", "0", "0", "3", ".", "1", ",", "W", "*", "6", "A">>,
      \* status V with its own checksum:
      \*   $GPRMC,123519,V,4807.038,N,01131.000,E,022.4,084.4,230394,003.1,W*7D
      <<"$", "G", "P", "R", "M", "C", ",", "1", "2", "3", "5", "1", "9", ",", "V", ",", "4", "8", "0", "7", ".", "0", "3", "8", ",", "N", ",", "0", "1", "1", "3", "1", ".", "0", "0", "0", ",", "E", ",", "0", "2", "2", ".", "4", ",", "0", "8", "4", ".", "4", ",", "2", "3", "0", "3", "9", "4", ",", "0", "0", "3", ".", "1", ",", "W", "*", "7", "D">>,
      \* status V, no checksum:
      \*   $GPRMC,123519,V,4807.038,N,01131.000,E,022.4,084.4,230394,003.1,W
      <<"$", "G", "P", "R", "M", "C", ",", "1", "2", "3", "5", "1", "9", ",", "V", ",", "4", "8", "0", "7", ".", "0", "3", "8", ",", "N", ",", "0", "1", "1", "3", "1", ".", "0", "0", "0", ",", "E", ",", "0", "2", "2", ".", "4", ",", "0", "8", "4", ".", "4", ",", "2", "3", "0", "3", "9", "4", ",", "0", "0", "3", ".", "1", ",", "W">>,
      \* status A, no checksum:
      \*   $GPRMC,123519,A,4807.038,N,01131.000,E,022.4,084.4,230394,003.1,W
      <<"$", "G", "P", "R", "M", "C", ",", "1", "2", "3", "5", "1", "9", ",", "A", ",", "4", "8", "0", "7", ".", "0", "3", "8", ",", "N", ",", "0", "1", "1", "3", "1", ".", "0", "0", "0", ",", "E", ",", "0", "2", "2", ".", "4", ",", "0", "8", "4", ".", "4", ",", "2", "3", "0", "3", "9", "4", ",", "0", "0", "3", ".", "1", ",", "W">>,
      \* status A, checksum off by one bit:
      \*   $GPRMC,123519,A,4807.038,N,01131.000,E,022.4,084.4,230394,003.1,W*6B
      <<"$", "G", "P", "R", "M", "C", ",", "1", "2", "3", "5", "1", "9", ",", "A", ",", "4", "8", "0", "7", ".", "0", "3", "8", ",", "N", ",", "0", "1", "1", "3", "1", ".", "0", "0", "0", ",", "E", ",", "0", "2", "2", ".", "4", ",", "0", "8", "4", ".", "4", ",", "2", "3", "0", "3", "9", "4", ",", "0", "0", "3", ".", "1", ",", "W", "*", "6", "B">>,
      \* status A, checksum not hexadecimal:
      \*   $GPRMC,123519,A,4807.038,N,01131.000,E,022.4,084.4,230394,003.1,W*G1
      <<"$", "G", "P", "R", "M", "C", ",", "1", "2", "3", "5", "1", "9", ",", "A", ",", "4", "8", "0", "7", ".", "0", "3", "8", ",", "N", ",", "0", "1", "1", "3", "1", ".", "0", "0", "0", ",", "E", ",", "0", "2", "2", ".", "4", ",", "0", "8", "4", ".", "4", ",", "2", "3", "0", "3", "9", "4", ",", "0", "0", "3", ".", "1", ",", "W", "*", "G", "1">>,
      \* status A, checksum missing after the star:
      \*   $GPRMC,123519,A,4807.038,N,01131.000,E,022.4,084.4,230394,003.1,W*
      <<"$", "G", "P", "R", "M", "C", ",", "1", "2", "3", "5", "1", "9", ",", "A", ",", "4", "8", "0", "7", ".", "0", "3", "8", ",", "N", ",", "0", "1", "1", "3", "1", ".", "0", "0", "0", ",", "E", ",", "0", "2", "2", ".", "4", ",", "0", "8", "4", ".", "4", ",", "2", "3", "0", "3", "9", "4", ",", "0", "0", "3", ".", "1", ",", "W", "*">>,
      \* status A between blanks:
      \*    $GPRMC,123519,A,4807.038,N,01131.000,E,022.4,084.4,230394,003.1,W*6A 
      <<" ", "$", "G", "P", "R", "M", "C", ",", "1", "2", "3", "5", "1", "9", ",", "A", ",", "4", "8", "0", "7", ".", "0", "3", "8", ",", "N", ",", "0", "1", "1", "3", "1", ".", "0", "0", "0", ",", "E", ",", "0", "2", "2", ".", "4", ",", "0", "8", "4", ".", "4", ",", "2", "3", "0", "3", "9", "4", ",", "0", "0", "3", ".", "1", ",", "W", "*", "6", "A", " ">>,
      \* the GGA sentence of tests::parse_gpgga:
      \*   $GPGGA,123519,4807.038,N,01131.000,E,1,08,0.9,545.4,M,46.9,M,,*47
      <<"$", "G", "P", "G", "G", "A", ",", "1", "2", "3", "5", "1", "9", ",", "4", "8", "0", "7", ".", "0", "3", "8", ",", "N", ",", "0", "1", "1", "3", "1", ".", "0", "0", "0", ",", "E", ",", "1", ",", "0", "8", ",", "0", ".", "9", ",", "5", "4", "5", ".", "4", ",", "M", ",", "4", "6", ".", "9", ",", "M", ",", ",", "*", "4", "7">>,
      \* GGA, quality 0:
      \*   $GPGGA,123519,4807.038,N,01131.000,E,0,08,0.9,545.4,M,46.9,M,,*46
      <<"$", "G", "P", "G", "G", "A", ",", "1", "2", "3", "5", "1", "9", ",", "4", "8", "0", "7", ".", "0", "3", "8", ",", "N", ",", "0", "1", "1", "3", "1", ".", "0", "0", "0", ",", "E", ",", "0", ",", "0", "8", ",", "0", ".", "9", ",", "5", "4", "5", ".", "4", ",", "M", ",", "4", "6", ".", "9", ",", "M", ",", ",", "*", "4", "6">>,
      \* GGA, quality 0, no checksum:
      \*   $GPGGA,123519,4807.038,N,01131.000,E,0,08,0.9,545.4,M,46.9,M,,
      <<"$", "G", "P", "G", "G", "A", ",", "1", "2", "3", "5", "1", "9", ",", "4", "8", "0", "7", ".", "0", "3", "8", ",", "N", ",", "0", "1", "1", "3", "1", ".", "0", "0", "0", ",", "E", ",", "0", ",", "0", "8", ",", "0", ".", "9", ",", "5", "4", "5", ".", "4", ",", "M", ",", "4", "6", ".", "9", ",", "M", ",", ",">>,
      \* GGA, quality empty:
      \*   $GPGGA,123519,4807.038,N,01131.000,E,,08,0.9,545.4,M,46.9,M,,*76
      <<"$", "G", "P", "G", "G", "A", ",", "1", "2", "3", "5", "1", "9", ",", "4", "8", "0", "7", ".", "0", "3", "8", ",", "N", ",", "0", "1", "1", "3", "1", ".", "0", "0", "0", ",", "E", ",", ",", "0", "8", ",", "0", ".", "9", ",", "5", "4", "5", ".", "4", ",", "M", ",", "4", "6", ".", "9", ",", "M", ",", ",", "*", "7", "6">>,
      \* GGA, quality 1, checksum off by one bit:
      \*   $GPGGA,123519,4807.038,N,01131.000,E,1,08,0.9,545.4,M,46.9,M,,*46
      <<"$", "G", "P", "G", "G", "A", ",", "1", "2", "3", "5", "1", "9", ",", "4", "8", "0", "7", ".", "0", "3", "8", ",", "N", ",", "0", "1", "1", "3", "1", ".", "0", "0", "0", ",", "E", ",", "1", ",", "0", "8", ",", "0", ".", "9", ",", "5", "4", "5", ".", "4", ",", "M", ",", "4", "6", ".", "9", ",", "M", ",", ",", "*", "4", "6">>,
      \* GGA, quality 2, southern and western hemisphere:
      \*   $GNGGA,101500,3351.650,S,07040.120,W,2,10*61
      <<"$", "G", "N", "G", "G", "A", ",", "1", "0", "1", "5", "0", "0", ",", "3", "3", "5", "1", ".", "6", "5", "0", ",", "S", ",", "0", "7", "0", "4", "0", ".", "1", "2", "0", ",", "W", ",", "2", ",", "1", "0", "*", "6", "1">>,
      \* GNRMC, status A, south and east:
      \*   $GNRMC,101500,A,3351.650,S,15112.500,E*33
      <<"$", "G", "N", "R", "M", "C", ",", "1", "0", "1", "5", "0", "0", ",", "A", ",", "3", "3", "5", "1", ".", "6", "5", "0", ",", "S", ",", "1", "5", "1", "1", "2", ".", "5", "0", "0", ",", "E", "*", "3", "3">>,
      \* GNRMC, status A, north and west:
      \*   $GNRMC,101501,A,5130.250,N,00007.500,W*3B
      <<"$", "G", "N", "R", "M", "C", ",", "1", "0", "1", "5", "0", "1", ",", "A", ",", "5", "1", "3", "0", ".", "2", "5", "0", ",", "N", ",", "0", "0", "0", "0", "7", ".", "5", "0", "0", ",", "W", "*", "3", "B">>,
      \* GNRMC, status V:
      \*   $GNRMC,101501,V,5130.250,N,00007.500,W*2C
      <<"$", "G", "N", "R", "M", "C", ",", "1", "0", "1", "5", "0", "1", ",", "V", ",", "5", "1", "3", "0", ".", "2", "5", "0", ",", "N", ",", "0", "0", "0", "0", "7", ".", "5", "0", "0", ",", "W", "*", "2", "C">>,
      \* status lower-case a:
      \*   $GPRMC,101501,a,5130.250,N,00007.500,W*05
      <<"$", "G", "P", "R", "M", "C", ",", "1", "0", "1", "5", "0", "1", ",", "a", ",", "5", "1", "3", "0", ".", "2", "5", "0", ",", "N", ",", "0", "0", "0", "0", "7", ".", "5", "0", "0", ",", "W", "*", "0", "5">>,
      \* status A, too few fields:
      \*   $GPRMC,101501,A,5130.250,N*5E
      <<"$", "G", "P", "R", "M", "C", ",", "1", "0", "1", "5", "0", "1", ",", "A", ",", "5", "1", "3", "0", ".", "2", "5", "0", ",", "N", "*", "5", "E">>,
      \* status A, latitude empty:
      \*   $GPRMC,101501,A,,N,00007.500,W*3B
      <<"$", "G", "P", "R", "M", "C", ",", "1", "0", "1", "5", "0", "1", ",", "A", ",", ",", "N", ",", "0", "0", "0", "0", "7", ".", "5", "0", "0", ",", "W", "*", "3", "B">>,
      \* status A, latitude without a decimal point:
      \*   $GPRMC,101501,A,5130,N,00007.500,W*3C
      <<"$", "G", "P", "R", "M", "C", ",", "1", "0", "1", "5", "0", "1", ",", "A", ",", "5", "1", "3", "0", ",", "N", ",", "0", "0", "0", "0", "7", ".", "5", "0", "0", ",", "W", "*", "3", "C">>,
      \* status A, latitude with minutes only:
      \*   $GPRMC,101501,A,30.250,N,00007.500,W*21
      <<"$", "G", "P", "R", "M", "C", ",", "1", "0", "1", "5", "0", "1", ",", "A", ",", "3", "0", ".", "2", "5", "0", ",", "N", ",", "0", "0", "0", "0", "7", ".", "5", "0", "0", ",", "W", "*", "2", "1">>,
      \* status A, latitude not a number:
      \*   $GPRMC,101501,A,51N0.250,N,00007.500,W*58
      <<"$", "G", "P", "R", "M", "C", ",", "1", "0", "1", "5", "0", "1", ",", "A", ",", "5", "1", "N", "0", ".", "2", "5", "0", ",", "N", ",", "0", "0", "0", "0", "7", ".", "5", "0", "0", ",", "W", "*", "5", "8">>,
      \* status A, minutes that round up:
      \*   $GPRMC,101502,A,0059.99999,N,00000.00004,E*37
      <<"$", "G", "P", "R", "M", "C", ",", "1", "0", "1", "5", "0", "2", ",", "A", ",", "0", "0", "5", "9", ".", "9", "9", "9", "9", "9", ",", "N", ",", "0", "0", "0", "0", "0", ".", "0", "0", "0", "0", "4", ",", "E", "*", "3", "7">>,
      \* a sentence of another type:
      \*   $GPGSV,3,1,11,03,03,111,00*4A
      <<"$", "G", "P", "G", "S", "V", ",", "3", ",", "1", ",", "1", "1", ",", "0", "3", ",", "0", "3", ",", "1", "1", "1", ",", "0", "0", "*", "4", "A">>,
      \* a GLONASS RMC sentence:
      \*   $GLRMC,101501,A,5130.250,N,00007.500,W*39
      <<"$", "G", "L", "R", "M", "C", ",", "1", "0", "1", "5", "0", "1", ",", "A", ",", "5", "1", "3", "0", ".", "2", "5", "0", ",", "N", ",", "0", "0", "0", "0", "7", ".", "5", "0", "0", ",", "W", "*", "3", "9">>,
      \* an empty line:
      \*   (nothing)
      <<>>,
      \* two dollar signs:
      \*   $$GPRMC,123519,A,4807.038,N,01131.000,E,022.4,084.4,230394,003.1,W*6A
      <<"$", "$", "G", "P", "R", "M", "C", ",", "1", "2", "3", "5", "1", "9", ",", "A", ",", "4", "8", "0", "7", ".", "0", "3", "8", ",", "N", ",", "0", "1", "1", "3", "1", ".", "0", "0", "0", ",", "E", ",", "0", "2", "2", ".", "4", ",", "0", "8", "4", ".", "4", ",", "2", "3", "0", "3", "9", "4", ",", "0", "0", "3", ".", "1", ",", "W", "*", "6", "A">> }

\* gnss_reader_loop: open the device and configure the serial port; an error
\* of either ends the reader
gnss_open ==
    /\ gnss.reader = "open"
    /\ \E ok \in BOOLEAN :
          gnss' = [gnss EXCEPT !.reader = IF ok THEN "reading" ELSE "exited", !.wrote = FALSE]
    /\ UNCHANGED <<cfg, tasks, pc, session, negotiated_ver, stored, dev, last, sent, loopvars>>

\* gnss_reader_loop: one line read; when it parses to a fix the shared
\* position is replaced under the mutex
gnss_read_line ==
    /\ gnss.reader = "reading"
    /\ \E text \in NmeaLines :
          LET pos == parse_nmea(text)
          IN gnss' = [position |-> IF pos.some THEN Some(pos.val) ELSE gnss.position,
                      reader   |-> "reading",
                      line     |-> text,
                      wrote    |-> pos.some]
    /\ UNCHANGED <<cfg, tasks, pc, session, negotiated_ver, stored, dev, last, sent, loopvars>>

\* gnss_reader_loop: a read error or the end of the input ends the reader;
\* the shared position stays
gnss_read_end ==
    /\ gnss.reader = "reading"
    /\ gnss' = [gnss EXCEPT !.reader = "exited", !.wrote = FALSE]
    /\ UNCHANGED <<cfg, tasks, pc, session, negotiated_ver, stored, dev, last, sent, loopvars>>

GnssNext ==
    \/ gnss_open
    \/ gnss_read_line
    \/ gnss_read_end

GnssInit == Init /\ cfg = [mtp |-> "WebSocket", mqtt_url |-> FALSE]

GnssSpec == GnssInit /\ [][GnssNext]_vars

\* ---------------------------------------------------------------------------
\* C38 - the shared position is replaced only by a valid fix
\* ---------------------------------------------------------------------------

\* the sentence of a line: between the leading '$' and the first '*'
SentenceOf(l) ==
    LET inner == TrimStartMatches(Trim(l), <<"$">>)
        star  == Find(inner, "*")
    IN IF star = 0 THEN inner ELSE SubSeq(inner, 1, star - 1)

\* the text after the first '*' of a line that has one
SumOf(l) ==
    LET inner == Trim(l)
    IN SubSeq(inner, Find(inner, "*") + 1, Len(inner))

FieldsOf(l) == SplitLine(SentenceOf(l), ",")

HexChar(d) == <<"0", "1", "2", "3", "4", "5", "6", "7", "8", "9", "A", "B", "C", "D", "E", "F">>[d + 1]

\* a byte as NMEA writes a checksum: two upper-case hexadecimal digits
Hex2(v) == <<HexChar(v \div 16), HexChar(v % 16)>>

\* the line carries a checksum and it is not that of its sentence
ChecksumMismatch(l) ==
    /\ Find(Trim(l), "*") # 0
    /\ SumOf(l) # Hex2(XorBytes(SentenceOf(l)))

\* an RMC sentence whose status field is not "A"
RmcNotActive(l) ==
    /\ FieldsOf(l)[1] \in {GPRMC, GNRMC}
    /\ Len(FieldsOf(l)) < 3 \/ FieldsOf(l)[3] # <<"A">>

\* a GGA sentence whose fix quality is 0 or empty
GgaNoFix(l) ==
    /\ FieldsOf(l)[1] \in {GPGGA, GNGGA}
    /\ Len(FieldsOf(l)) >= 7
    /\ FieldsOf(l)[7] \in {<<"0">>, <<>>}

\* C38: a step of the reader that writes the shared position read a line
\* that is none of: an RMC sentence with a status other than "A", a GGA
\* sentence with fix quality 0 or empty, a line whose checksum does not
\* match; and what it writes is a position.  A position once set is never
\* replaced by none.
C38_OnlyValidFix ==
    [][ /\ gnss'.wrote =>
              /\ gnss'.position.some
              /\ ~RmcNotActive(gnss'.line)
              /\ ~GgaNoFix(gnss'.line)
              /\ ~ChecksumMismatch(gnss'.line)
        /\ ~gnss'.wrote => gnss'.position = gnss.position
        /\ gnss.position.some => gnss'.position.some ]_vars

\* after a fix, an RMC sentence with status V and a matching checksum was
\* read and the position stayed
C38_Witness ==
    /\ gnss.position.some
    /\ ~gnss.wrote
    /\ gnss.reader = "reading"
    /\ RmcNotActive(gnss.line)
    /\ ~ChecksumMismatch(gnss.line)

\* after a fix, an RMC sentence with status A and a checksum that does not
\* match was read and the position stayed
C38_WitnessChecksum ==
    /\ gnss.position.some
    /\ ~gnss.wrote
    /\ gnss.reader = "reading"
    /\ ChecksumMismatch(gnss.line)
    /\ ~RmcNotActive(gnss.line)
    /\ FieldsOf(gnss.line)[1] = GPRMC

\* after a fix, a GGA sentence with quality 0 and a matching checksum was
\* read and the position stayed
C38_WitnessGga ==
    /\ gnss.position.some
    /\ ~gnss.wrote
    /\ gnss.reader = "reading"
    /\ GgaNoFix(gnss.line)
    /\ ~ChecksumMismatch(gnss.line)

\* the sentence of tests::parse_gprmc was read and the position is
\* 48.117300, 11.516667
C38_WitnessFix ==
    /\ gnss.wrote
    /\ FieldsOf(gnss.line)[1] = GPRMC
    /\ SumOf(gnss.line) = <<"6", "A">>
    /\ gnss.position = Some(GnssPosition(<<"4", "8", ".", "1", "1", "7", "3", "0", "0">>,
                                          <<"1", "1", ".", "5", "1", "6", "6", "6", "7">>))

====
